---- MODULE Spec2Model ----
(***************************************************************************)
(* A model of roger (src/src/main.rs): the airport grid, the fleet, the    *)
(* movement engine update_aircraft_position, the command validator         *)
(* parse_user_input, the weather chain, the collision detector and the     *)
(* tick loop of main with its command channel.                             *)
(***************************************************************************)
EXTENDS Integers, Sequences, FiniteSets, TLC

\* --------------------------------------------------------------- bounds
\* spacing.left_right of construct_airport: the number of Empty columns
\* padded on each side of the map.  The source pads 20; the padding only
\* lengthens the approach and the takeoff roll, and the model pads fewer.
left_right == 2
\* The tick loop of main is unbounded; the model stops it after MaxTicks.
MaxTicks == 5
\* Capacity the model gives the unbounded mpsc channel.
MaxQueue == 1
\* Number of ticks the turnaround scenario runs past the arrival at a gate.
GateTicks == 20

\* ------------------------------------------------------ program constants
top_bottom == 2
LANDING_INTERVAL == 60

\* ------------------------------------------------------------- Direction
Directions == {"North", "South", "East", "West", "StayPut"}

\* Direction::go; usize coordinates, so a step below 0 is reported by Underflow.
go(d, position) ==
  CASE d = "North" -> <<position[1] - 1, position[2]>>
    [] d = "South" -> <<position[1] + 1, position[2]>>
    [] d = "East"  -> <<position[1], position[2] + 1>>
    [] d = "West"  -> <<position[1], position[2] - 1>>
    [] OTHER       -> position

\* position.0 - 1 or position.1 - 1 on a usize that is 0: a panic in a debug
\* build; the model treats it as a fault in every build.
Underflow(d, position) ==
  \/ d = "North" /\ position[1] = 0
  \/ d = "West" /\ position[2] = 0

\* a quarter turn to the right instead of the opposite
TurnRight(d) ==
  CASE d = "North" -> "East"
    [] d = "East"  -> "South"
    [] d = "South" -> "West"
    [] d = "West"  -> "North"
    [] OTHER       -> "StayPut"

get_opposite_dir(d) ==
  CASE d = "North" -> "South"
    [] d = "South" -> "North"
    [] d = "East"  -> "West"
    [] d = "West"  -> "East"
    [] OTHER       -> "StayPut"

\* ---------------------------------------------------------------- MapPoint
RunwayPt(n, d)   == [kind |-> "Runway", num |-> n, label |-> "", dir |-> d]
TaxiwayPt(n, d)  == [kind |-> "Taxiway", num |-> n, label |-> "", dir |-> d]
GatePt(g)        == [kind |-> "Gate", num |-> 0, label |-> g, dir |-> "StayPut"]
GateTaxiLinePt(g, d) == [kind |-> "GateTaxiLine", num |-> 0, label |-> g, dir |-> d]
EmptyPt          == [kind |-> "Empty", num |-> 0, label |-> "", dir |-> "StayPut"]

\* The map file read by build_airport_map, before the padding:
\*   ...,R1E,R0E,R1E,R1S,...,...,...
\*   ...,...,T1N,...,T2S,MBE,MBE,GBX
\*   GAX,MAW,T1N,T1W,T2W,...,...,...
MapFile ==
  << << EmptyPt, RunwayPt(1, "East"), RunwayPt(0, "East"), RunwayPt(1, "East"),
        RunwayPt(1, "South"), EmptyPt, EmptyPt, EmptyPt >>,
     << EmptyPt, EmptyPt, TaxiwayPt(1, "North"), EmptyPt,
        TaxiwayPt(2, "South"), GateTaxiLinePt("B", "East"),
        GateTaxiLinePt("B", "East"), GatePt("B") >>,
     << GatePt("A"), GateTaxiLinePt("A", "West"), TaxiwayPt(1, "North"),
        TaxiwayPt(1, "West"), TaxiwayPt(2, "West"), EmptyPt, EmptyPt, EmptyPt >> >>

length == Len(MapFile)
width  == Len(MapFile[1])

\* map.map.len() and map.map[0].len() after the padding
MapRows == length + 2 * top_bottom
MapCols == width + 2 * left_right

InGrid(position) ==
  /\ position[1] >= 0 /\ position[1] < MapRows
  /\ position[2] >= 0 /\ position[2] < MapCols

\* map.map[x][y] for an index inside the grid
MapAt(position) ==
  IF /\ position[1] >= top_bottom /\ position[1] < top_bottom + length
     /\ position[2] >= left_right /\ position[2] < left_right + width
  THEN MapFile[position[1] - top_bottom + 1][position[2] - left_right + 1]
  ELSE EmptyPt

\* Direction::fetch_mappoint faults (index out of bounds, or underflow in go)
FetchFaults(d, position) == Underflow(d, position) \/ ~InGrid(go(d, position))

fetch_mappoint(d, position) == MapAt(go(d, position))

check_if_runway(pt) == pt.kind = "Runway"
check_if_taxiway(pt) == pt.kind = "Taxiway"
check_if_gate_taxi_line(pt) == pt.kind = "GateTaxiLine"
check_if_gate(pt, gate) == pt.kind = "Gate" /\ pt.label = gate

AllPositions == (0 .. MapRows - 1) \X (0 .. MapCols - 1)

\* ------------------------------------------------------ Topology registry
Digits == <<"0", "1", "2", "3", "4", "5", "6", "7", "8", "9">>
\* usize::to_string for one digit
to_string(n) == Digits[n + 1]
\* str::parse::<usize>: "ok" is FALSE when the text is no number
parse_usize(s) ==
  IF \E n \in 0 .. 9 : Digits[n + 1] = s
  THEN [ok |-> TRUE, val |-> CHOOSE n \in 0 .. 9 : Digits[n + 1] = s]
  ELSE [ok |-> FALSE, val |-> 0]

\* row-major rank of a position: the scan order of Runway::new and Gate::new
ScanRank(position) == position[1] * MapCols + position[2]

RunwayCells(n) ==
  {q \in AllPositions : MapAt(q).kind = "Runway" /\ MapAt(q).num = n}

\* Runway::new: one record per runway name, the side of the first cell scanned
runways ==
  LET names == {to_string(MapAt(q).num) : q \in {q \in AllPositions : MapAt(q).kind = "Runway"}}
      first(n) == CHOOSE q \in RunwayCells(n) :
                    \A o \in RunwayCells(n) : ScanRank(q) <= ScanRank(o)
  IN [k \in names |->
        LET n == parse_usize(k).val
        IN [name |-> n, side |-> MapAt(first(n)).dir]]

GateCells == {q \in AllPositions : MapAt(q).kind = "Gate"}

\* Gate::new panics on a duplicate gate number
DuplicateGate ==
  \E q \in GateCells, o \in GateCells : q # o /\ MapAt(q).label = MapAt(o).label

\* Gate::new: one record per gate cell, not occupied
NewGates ==
  [g \in {MapAt(q).label : q \in GateCells} |->
     [number |-> g,
      position |-> CHOOSE q \in GateCells : MapAt(q).label = g,
      is_occupied |-> FALSE]]

\* ------------------------------------------------------------------ Action
AtGateActions ==
  << "ShutdownProcedure", "DeboardPassengers", "DeboardCargo", "UnloadBaggage",
     "UnloadCargo", "Refuel", "Repair", "Clean", "LoadCargo", "CrewChange",
     "MaintenanceCheck", "LoadBaggage", "LoadPassengers", "BoardPassengers",
     "LoadAdditionalCargo", "Standby" >>

Act(k)               == [kind |-> k, num |-> 0, gate |-> "", sub |-> ""]
TaxiOntoRunwayAct(n) == [kind |-> "TaxiOntoRunway", num |-> n, gate |-> "", sub |-> ""]
TaxiToGateAct(g)     == [kind |-> "TaxiToGate", num |-> 0, gate |-> g, sub |-> ""]
AtGateAct(g, s)      == [kind |-> "AtGate", num |-> 0, gate |-> g, sub |-> s]

\* ------------------------------------------------- MapPoint searches
SearchOrder == <<"North", "South", "East", "West">>

\* MapPoint::check_for_taxiway: the first direction (N, S, E, W) whose
\* neighbour is a Taxiway.  fault is TRUE when a fetch on the way panics.
RECURSIVE TaxiwayScan(_, _)
TaxiwayScan(position, i) ==
  IF i > Len(SearchOrder)
  THEN [found |-> FALSE, dir |-> "StayPut", fault |-> FALSE]
  ELSE IF FetchFaults(SearchOrder[i], position)
  THEN [found |-> FALSE, dir |-> "StayPut", fault |-> TRUE]
  ELSE IF check_if_taxiway(fetch_mappoint(SearchOrder[i], position))
  THEN [found |-> TRUE, dir |-> SearchOrder[i], fault |-> FALSE]
  ELSE TaxiwayScan(position, i + 1)

check_for_taxiway(position) == TaxiwayScan(position, 1)

\* MapPoint::check_for_gate_taxi_line: follow GateTaxiLine cells from
\* position along direction; "yes" when the chain ends at Gate(gate).
RECURSIVE check_for_gate_taxi_line(_, _, _)
check_for_gate_taxi_line(position, gate, direction) ==
  IF FetchFaults(direction, position) THEN "fault"
  ELSE IF check_if_gate_taxi_line(fetch_mappoint(direction, position))
  THEN check_for_gate_taxi_line(go(direction, position), gate, direction)
  ELSE IF check_if_gate(fetch_mappoint(direction, position), gate) THEN "yes"
  ELSE "no"

\* MapPoint::check_for_gate_taxi_line_all_directions
RECURSIVE GateLineScan(_, _, _, _)
GateLineScan(position, gate, do_not_go_deep, i) ==
  IF i > Len(SearchOrder)
  THEN [found |-> FALSE, dir |-> "StayPut", fault |-> FALSE]
  ELSE
    LET direction == SearchOrder[i]
        chain == check_for_gate_taxi_line(position, gate, direction)
    IN IF FetchFaults(direction, position)
       THEN [found |-> FALSE, dir |-> "StayPut", fault |-> TRUE]
       ELSE IF do_not_go_deep
               /\ check_if_gate_taxi_line(fetch_mappoint(direction, position))
       THEN [found |-> TRUE, dir |-> direction, fault |-> FALSE]
       ELSE IF chain = "fault"
       THEN [found |-> FALSE, dir |-> "StayPut", fault |-> TRUE]
       ELSE IF chain = "yes"
       THEN [found |-> TRUE, dir |-> direction, fault |-> FALSE]
       ELSE GateLineScan(position, gate, do_not_go_deep, i + 1)

check_for_gate_taxi_line_all_directions(position, gate, do_not_go_deep) ==
  GateLineScan(position, gate, do_not_go_deep, 1)

\* ------------------------------------------------------- Movement engine
\* The outcome of one plane's arm of update_aircraft_position: the plane,
\* the gate registry, and the panic message ("none" when it returns).
Moved(plane, gates) == [plane |-> plane, gates |-> gates, fault |-> "none"]
Panic(plane, gates, msg) == [plane |-> plane, gates |-> gates, fault |-> msg]

IndexPanic == "index out of bounds"
TodoPanic == "not yet implemented"

\* a move along d from the plane's position, or the panic of the arithmetic
MoveTo(plane, gates, d) ==
  IF Underflow(d, plane.position)
  THEN Panic(plane, gates, "attempt to subtract with overflow")
  ELSE Moved([plane EXCEPT !.position = go(d, plane.position)], gates)

\* an approach that never notices the runway
StepInAirNoLand(plane, gates) ==
  IF plane.runway.side = "StayPut" THEN Panic(plane, gates, TodoPanic)
  ELSE IF FetchFaults(plane.runway.side, plane.position)
  THEN Panic(plane, gates, IndexPanic)
  ELSE Moved([plane EXCEPT !.position = go(plane.runway.side, @)], gates)

StepInAir(plane, gates) ==
  LET side == plane.runway.side
      pos == go(side, plane.position)
  IN IF side = "StayPut" THEN Panic(plane, gates, TodoPanic)
     ELSE IF FetchFaults(side, plane.position) THEN Panic(plane, gates, IndexPanic)
     ELSE IF MapAt(pos) = RunwayPt(plane.runway.name, side)
     THEN Moved([plane EXCEPT !.position = pos, !.current_action = Act("Land")], gates)
     ELSE Moved([plane EXCEPT !.position = pos], gates)

\* a landing that holds when the cell it arrives on is Empty
StepLandStopsOnEmpty(plane, gates) ==
  LET side == plane.runway.side
      near == check_for_taxiway(plane.position)
      ahead == go(side, plane.position)
      potential_map_point == fetch_mappoint(near.dir, plane.position)
      potential_point == go(near.dir, plane.position)
      outward_facing ==
        /\ potential_map_point.kind = "Taxiway"
        /\ check_if_runway(fetch_mappoint(potential_map_point.dir, potential_point))
      exits == near.found /\ ~outward_facing
      pos == IF exits THEN potential_point ELSE ahead
      end_of_runway == MapAt(pos) = EmptyPt
  IN IF side = "StayPut" THEN Panic(plane, gates, TodoPanic)
     ELSE IF \/ FetchFaults(side, plane.position)
             \/ near.fault
             \/ near.found /\ FetchFaults(potential_map_point.dir, potential_point)
             \/ FetchFaults(side, pos)
     THEN Panic(plane, gates, IndexPanic)
     ELSE Moved([plane EXCEPT
                   !.position = pos,
                   !.current_action =
                      IF exits \/ end_of_runway THEN Act("HoldPosition") ELSE @],
                gates)

\* a landing that leaves the runway at the first taxiway it finds
StepLandTakesEveryExit(plane, gates) ==
  LET side == plane.runway.side
      near == check_for_taxiway(plane.position)
      ahead == go(side, plane.position)
      potential_map_point == fetch_mappoint(near.dir, plane.position)
      potential_point == go(near.dir, plane.position)
      exits == near.found
      pos == IF exits THEN potential_point ELSE ahead
      end_of_runway == fetch_mappoint(side, pos) = EmptyPt
  IN IF side = "StayPut" THEN Panic(plane, gates, TodoPanic)
     ELSE IF \/ FetchFaults(side, plane.position)
             \/ near.fault
             \/ near.found /\ FetchFaults(potential_map_point.dir, potential_point)
             \/ FetchFaults(side, pos)
     THEN Panic(plane, gates, IndexPanic)
     ELSE Moved([plane EXCEPT
                   !.position = pos,
                   !.current_action =
                      IF exits \/ end_of_runway THEN Act("HoldPosition") ELSE @],
                gates)

StepLand(plane, gates) ==
  LET side == plane.runway.side
      near == check_for_taxiway(plane.position)
      ahead == go(side, plane.position)
      potential_map_point == fetch_mappoint(near.dir, plane.position)
      potential_point == go(near.dir, plane.position)
      \* named as in the source: TRUE when the taxiway leads onto a runway
      outward_facing ==
        /\ potential_map_point.kind = "Taxiway"
        /\ check_if_runway(fetch_mappoint(potential_map_point.dir, potential_point))
      exits == near.found /\ ~outward_facing
      pos == IF exits THEN potential_point ELSE ahead
      end_of_runway == fetch_mappoint(side, pos) = EmptyPt
  IN IF side = "StayPut" THEN Panic(plane, gates, TodoPanic)
     ELSE IF \/ FetchFaults(side, plane.position)
             \/ near.fault
             \/ near.found /\ FetchFaults(potential_map_point.dir, potential_point)
             \/ FetchFaults(side, pos)
     THEN Panic(plane, gates, IndexPanic)
     ELSE Moved([plane EXCEPT
                   !.position = pos,
                   !.current_action =
                      IF exits \/ end_of_runway THEN Act("HoldPosition") ELSE @],
                gates)

\* an arrival at the gate that does not mark the gate
StepTaxiToGateLeavesGateFree(plane, gates) ==
  LET gate == plane.current_action.gate
      point == MapAt(plane.position)
      near == check_for_gate_taxi_line_all_directions(plane.position, gate, FALSE)
  IN IF near.fault THEN Panic(plane, gates, IndexPanic)
     ELSE IF near.found THEN MoveTo(plane, gates, near.dir)
     ELSE IF point.kind \in {"Taxiway", "GateTaxiLine", "Runway"}
     THEN MoveTo(plane, gates, point.dir)
     ELSE IF point.kind = "Gate" /\ gate \in DOMAIN gates
     THEN Moved([plane EXCEPT
                   !.current_action = AtGateAct(gate, "ShutdownProcedure")],
                gates)
     ELSE Panic(plane, gates, "Plane is not standing on a taxiway or correct gate")

\* a taxi to the gate that never looks for the line of its gate
StepTaxiToGateKeepsOn(plane, gates) ==
  LET gate == plane.current_action.gate
      point == MapAt(plane.position)
  IN IF ~InGrid(plane.position) THEN Panic(plane, gates, IndexPanic)
     ELSE IF check_if_runway(point) /\ FetchFaults(plane.runway.side, plane.position)
     THEN Panic(plane, gates, IndexPanic)
     ELSE IF check_if_runway(point)
             /\ fetch_mappoint(plane.runway.side, plane.position) = EmptyPt
     THEN MoveTo(plane, gates, point.dir)
     ELSE IF point.kind \in {"Taxiway", "GateTaxiLine", "Runway"}
     THEN MoveTo(plane, gates, point.dir)
     ELSE IF point.kind = "Gate"
     THEN IF gate \notin DOMAIN gates
          THEN Panic(plane, gates, "Gate not found")
          ELSE Moved([plane EXCEPT
                        !.current_action = AtGateAct(gate, "ShutdownProcedure")],
                     [gates EXCEPT ![gate].is_occupied = TRUE])
     ELSE Panic(plane, gates, "Plane is not standing on a taxiway or correct gate")

StepTaxiToGate(plane, gates) ==
  LET gate == plane.current_action.gate
      point == MapAt(plane.position)
      near == check_for_gate_taxi_line_all_directions(plane.position, gate, FALSE)
  IN IF ~InGrid(plane.position) THEN Panic(plane, gates, IndexPanic)
     ELSE IF check_if_runway(point) /\ FetchFaults(plane.runway.side, plane.position)
     THEN Panic(plane, gates, IndexPanic)
     ELSE IF check_if_runway(point)
             /\ fetch_mappoint(plane.runway.side, plane.position) = EmptyPt
     THEN MoveTo(plane, gates, point.dir)
     ELSE IF near.fault THEN Panic(plane, gates, IndexPanic)
     ELSE IF near.found THEN MoveTo(plane, gates, near.dir)
     ELSE IF point.kind \in {"Taxiway", "GateTaxiLine", "Runway"}
     THEN MoveTo(plane, gates, point.dir)
     ELSE IF point.kind = "Gate"
     THEN IF gate \notin DOMAIN gates
          THEN Panic(plane, gates, "Gate not found")
          ELSE Moved([plane EXCEPT
                        !.current_action = AtGateAct(gate, "ShutdownProcedure")],
                     [gates EXCEPT ![gate].is_occupied = TRUE])
     ELSE Panic(plane, gates, "Plane is not standing on a taxiway or correct gate")

\* a Takeoff arm whose exit test is one cell wider on every side
StepTakeoffExitsEarly(plane, gates) ==
  LET point == MapAt(plane.position)
  IN IF \/ plane.position[1] <= 2
        \/ plane.position[1] >= MapRows - 2
        \/ plane.position[2] <= 2
        \/ plane.position[2] >= MapCols - 2
     THEN Moved([plane EXCEPT !.out_of_map = TRUE], gates)
     ELSE IF point.kind \in {"Runway", "Empty"}
     THEN MoveTo(plane, gates, plane.runway.side)
     ELSE Panic(plane, gates, "Plane is not standing on a runway")

StepTakeoff(plane, gates) ==
  LET point == MapAt(plane.position)
  IN IF \/ plane.position[1] <= 1
        \/ plane.position[1] >= MapRows - 1
        \/ plane.position[2] <= 1
        \/ plane.position[2] >= MapCols - 1
     THEN Moved([plane EXCEPT !.out_of_map = TRUE], gates)
     ELSE IF point.kind \in {"Runway", "Empty"}
     THEN MoveTo(plane, gates, plane.runway.side)
     ELSE Panic(plane, gates, "Plane is not standing on a runway")

\* a TaxiOntoRunway arm that leaves the plane in place on a cell it has no rule for
StepTaxiOntoRunwayStaysPut(plane, gates) ==
  LET point == MapAt(plane.position)
  IN IF ~InGrid(plane.position) THEN Panic(plane, gates, IndexPanic)
     ELSE IF point.kind = "Taxiway" THEN MoveTo(plane, gates, point.dir)
     ELSE IF point.kind = "Runway"
     THEN IF point.num = 0
          THEN Moved([plane EXCEPT !.current_action = TaxiOntoRunwayAct(point.num)],
                     gates)
          ELSE MoveTo(plane, gates, point.dir)
     ELSE Moved(plane, gates)

StepTaxiOntoRunway(plane, gates) ==
  LET point == MapAt(plane.position)
  IN IF ~InGrid(plane.position) THEN Panic(plane, gates, IndexPanic)
     ELSE IF point.kind = "Taxiway" THEN MoveTo(plane, gates, point.dir)
     ELSE IF point.kind = "Runway"
     THEN IF point.num = 0
          THEN Moved([plane EXCEPT !.current_action = TaxiOntoRunwayAct(point.num)],
                     gates)
          ELSE MoveTo(plane, gates, point.dir)
     ELSE Panic(plane, gates, "Plane is not standing on a taxiway or runway")

\* a hold short that follows the taxiway onto the runway
StepHoldShortRunsOn(plane, gates) ==
  LET point == MapAt(plane.position)
  IN IF ~InGrid(plane.position) THEN Panic(plane, gates, IndexPanic)
     ELSE IF point.kind = "Taxiway"
     THEN IF FetchFaults(point.dir, plane.position)
          THEN Panic(plane, gates, IndexPanic)
          ELSE MoveTo(plane, gates, point.dir)
     ELSE Panic(plane, gates, "Plane is not standing on a taxiway")

StepHoldShort(plane, gates) ==
  LET point == MapAt(plane.position)
  IN IF ~InGrid(plane.position) THEN Panic(plane, gates, IndexPanic)
     ELSE IF point.kind = "Taxiway"
     THEN IF FetchFaults(point.dir, plane.position)
          THEN Panic(plane, gates, IndexPanic)
          ELSE IF check_if_runway(fetch_mappoint(point.dir, plane.position))
          THEN Moved([plane EXCEPT !.current_action = Act("HoldPosition")], gates)
          ELSE MoveTo(plane, gates, point.dir)
     ELSE Panic(plane, gates, "Plane is not standing on a taxiway")

\* a pushback that gives the gate back when the aircraft leaves the gate cell
StepPushbackFreesGate(plane, gates) ==
  LET point == MapAt(plane.position)
      back == get_opposite_dir(point.dir)
      near == check_for_gate_taxi_line_all_directions(plane.position, point.label, TRUE)
  IN IF ~InGrid(plane.position) THEN Panic(plane, gates, IndexPanic)
     ELSE IF point.kind = "GateTaxiLine"
     THEN IF FetchFaults(back, plane.position) THEN Panic(plane, gates, IndexPanic)
          ELSE Moved([plane EXCEPT
                        !.position = go(back, plane.position),
                        !.current_action =
                           IF check_if_taxiway(fetch_mappoint(back, plane.position))
                           THEN Act("HoldPosition") ELSE @],
                     gates)
     ELSE IF point.kind = "Gate"
     THEN IF near.fault THEN Panic(plane, gates, IndexPanic)
          ELSE IF near.found
          THEN MoveTo(plane, [gates EXCEPT ![point.label].is_occupied = FALSE], near.dir)
          ELSE Panic(plane, gates, "Plane is not standing near a gate taxi line")
     ELSE Panic(plane, gates, "Plane is not standing at a gate or gate taxi line")

\* a pushback that follows the gate line in its own direction
StepPushbackAlongLine(plane, gates) ==
  LET point == MapAt(plane.position)
      near == check_for_gate_taxi_line_all_directions(plane.position, point.label, TRUE)
  IN IF ~InGrid(plane.position) THEN Panic(plane, gates, IndexPanic)
     ELSE IF point.kind = "GateTaxiLine"
     THEN IF FetchFaults(point.dir, plane.position)
          THEN Panic(plane, gates, IndexPanic)
          ELSE Moved([plane EXCEPT
                        !.position = go(point.dir, plane.position),
                        !.current_action =
                           IF check_if_taxiway(fetch_mappoint(point.dir, plane.position))
                           THEN Act("HoldPosition") ELSE @],
                     gates)
     ELSE IF point.kind = "Gate"
     THEN IF near.fault THEN Panic(plane, gates, IndexPanic)
          ELSE IF near.found THEN MoveTo(plane, gates, near.dir)
          ELSE Panic(plane, gates, "Plane is not standing near a gate taxi line")
     ELSE Panic(plane, gates, "Plane is not standing at a gate or gate taxi line")

StepPushback(plane, gates) ==
  LET point == MapAt(plane.position)
      back == get_opposite_dir(point.dir)
      near == check_for_gate_taxi_line_all_directions(plane.position, point.label, TRUE)
  IN IF ~InGrid(plane.position) THEN Panic(plane, gates, IndexPanic)
     ELSE IF point.kind = "GateTaxiLine"
     THEN IF FetchFaults(back, plane.position)
          THEN Panic(plane, gates, IndexPanic)
          ELSE Moved([plane EXCEPT
                        !.position = go(back, plane.position),
                        !.current_action =
                           IF check_if_taxiway(fetch_mappoint(back, plane.position))
                           THEN Act("HoldPosition") ELSE @],
                     gates)
     ELSE IF point.kind = "Gate"
     THEN IF near.fault THEN Panic(plane, gates, IndexPanic)
          ELSE IF near.found THEN MoveTo(plane, gates, near.dir)
          ELSE Panic(plane, gates, "Plane is not standing near a gate taxi line")
     ELSE Panic(plane, gates, "Plane is not standing at a gate or gate taxi line")

\* The Pushback arm of the engine on other map files: m is the grid as its
\* rows, positions count from 0 as in the program.
InGridOf(m, position) ==
  /\ position[1] >= 0 /\ position[1] < Len(m)
  /\ position[2] >= 0 /\ position[2] < Len(m[1])

PointOf(m, position) == m[position[1] + 1][position[2] + 1]

FetchFaultsIn(m, d, position) == Underflow(d, position) \/ ~InGridOf(m, go(d, position))

fetch_mappoint_in(m, d, position) == PointOf(m, go(d, position))

\* MapPoint::check_for_gate_taxi_line on the grid m
RECURSIVE check_for_gate_taxi_line_in(_, _, _, _)
check_for_gate_taxi_line_in(m, position, gate, direction) ==
  IF FetchFaultsIn(m, direction, position) THEN "fault"
  ELSE IF check_if_gate_taxi_line(fetch_mappoint_in(m, direction, position))
  THEN check_for_gate_taxi_line_in(m, go(direction, position), gate, direction)
  ELSE IF check_if_gate(fetch_mappoint_in(m, direction, position), gate) THEN "yes"
  ELSE "no"

\* MapPoint::check_for_gate_taxi_line_all_directions on the grid m
RECURSIVE GateLineScanIn(_, _, _, _, _)
GateLineScanIn(m, position, gate, do_not_go_deep, i) ==
  IF i > Len(SearchOrder)
  THEN [found |-> FALSE, dir |-> "StayPut", fault |-> FALSE]
  ELSE
    LET direction == SearchOrder[i]
        chain == check_for_gate_taxi_line_in(m, position, gate, direction)
    IN IF FetchFaultsIn(m, direction, position)
       THEN [found |-> FALSE, dir |-> "StayPut", fault |-> TRUE]
       ELSE IF do_not_go_deep
               /\ check_if_gate_taxi_line(fetch_mappoint_in(m, direction, position))
       THEN [found |-> TRUE, dir |-> direction, fault |-> FALSE]
       ELSE IF chain = "fault"
       THEN [found |-> FALSE, dir |-> "StayPut", fault |-> TRUE]
       ELSE IF chain = "yes"
       THEN [found |-> TRUE, dir |-> direction, fault |-> FALSE]
       ELSE GateLineScanIn(m, position, gate, do_not_go_deep, i + 1)

\* the Pushback arm of update_aircraft_position on the grid m
StepPushbackIn(m, plane, gates) ==
  LET point == PointOf(m, plane.position)
      back == get_opposite_dir(point.dir)
      near == GateLineScanIn(m, plane.position, point.label, TRUE, 1)
  IN IF ~InGridOf(m, plane.position) THEN Panic(plane, gates, IndexPanic)
     ELSE IF point.kind = "GateTaxiLine"
     THEN IF FetchFaultsIn(m, back, plane.position)
          THEN Panic(plane, gates, IndexPanic)
          ELSE Moved([plane EXCEPT
                        !.position = go(back, plane.position),
                        !.current_action =
                           IF check_if_taxiway(fetch_mappoint_in(m, back, plane.position))
                           THEN Act("HoldPosition") ELSE @],
                     gates)
     ELSE IF point.kind = "Gate"
     THEN IF near.fault THEN Panic(plane, gates, IndexPanic)
          ELSE IF near.found THEN MoveTo(plane, gates, near.dir)
          ELSE Panic(plane, gates, "Plane is not standing near a gate taxi line")
     ELSE Panic(plane, gates, "Plane is not standing at a gate or gate taxi line")

\* a turnaround loop that goes on scanning from the element it has just taken
RECURSIVE AtGateLoopCascade(_, _)
AtGateLoopCascade(i, atgate_action) ==
  IF i > Len(AtGateActions) THEN atgate_action
  ELSE IF AtGateActions[i] = atgate_action
  THEN IF i + 1 <= Len(AtGateActions)
       THEN AtGateLoopCascade(i + 1, AtGateActions[i + 1])
       ELSE "Standby"
  ELSE AtGateLoopCascade(i + 1, atgate_action)

\* The AtGate arm: the while loop over all::<AtGateAction>(), which takes the
\* element after the one that equals the current sub-state (Standby at the end)
\* and goes on scanning from the element after that.
RECURSIVE AtGateLoop(_, _)
AtGateLoop(i, atgate_action) ==
  IF i > Len(AtGateActions) THEN atgate_action
  ELSE IF AtGateActions[i] = atgate_action
  THEN IF i + 1 <= Len(AtGateActions)
       THEN AtGateLoop(i + 2, AtGateActions[i + 1])
       ELSE AtGateLoop(i + 2, "Standby")
  ELSE AtGateLoop(i + 1, atgate_action)

StepAtGate(plane, gates) ==
  Moved([plane EXCEPT !.current_action.sub = AtGateLoop(1, @)], gates)

\* one plane's pass through the match of update_aircraft_position
StepPlane(plane, gates) ==
  LET k == plane.current_action.kind
  IN CASE k = "InAir"          -> StepInAir(plane, gates)
       [] k = "Land"           -> StepLand(plane, gates)
       [] k = "TaxiToGate"     -> StepTaxiToGate(plane, gates)
       [] k = "Takeoff"        -> StepTakeoff(plane, gates)
       [] k = "HoldPosition"   -> Moved(plane, gates)
       [] k = "TaxiOntoRunway" -> StepTaxiOntoRunway(plane, gates)
       [] k = "HoldShort"      -> StepHoldShort(plane, gates)
       [] k = "Pushback"       -> StepPushback(plane, gates)
       [] OTHER                -> StepAtGate(plane, gates)

\* an engine whose planes give way: a plane is not advanced onto a cell on
\* which another plane of the fleet stands
RECURSIVE EnginePassYields(_, _, _, _)
EnginePassYields(planes, gates, count, i) ==
  IF i > Len(planes)
  THEN [planes |-> planes, gates |-> gates, fault |-> "none", count |-> count]
  ELSE IF planes[i].out_of_map
  THEN EnginePassYields(planes, gates, count, i + 1)
  ELSE LET r == StepPlane(planes[i], gates)
           c == [count EXCEPT ![i] = @ + 1]
           blocked == \E j \in 1 .. Len(planes) :
                        j # i /\ planes[j].position = r.plane.position
       IN IF r.fault # "none"
          THEN [planes |-> planes, gates |-> gates, fault |-> r.fault, count |-> c]
          ELSE IF blocked
          THEN EnginePassYields(planes, gates, c, i + 1)
          ELSE EnginePassYields([planes EXCEPT ![i] = r.plane], r.gates, c, i + 1)

\* an engine that does not skip the exited planes
RECURSIVE EnginePassStepsExited(_, _, _, _)
EnginePassStepsExited(planes, gates, count, i) ==
  IF i > Len(planes)
  THEN [planes |-> planes, gates |-> gates, fault |-> "none", count |-> count]
  ELSE LET r == StepPlane(planes[i], gates)
           c == [count EXCEPT ![i] = @ + 1]
       IN IF r.fault # "none"
          THEN [planes |-> planes, gates |-> gates, fault |-> r.fault, count |-> c]
          ELSE EnginePassStepsExited([planes EXCEPT ![i] = r.plane], r.gates, c, i + 1)

\* update_aircraft_position: the planes of the fleet in order, the exited ones
\* skipped; a panic ends the pass.  count[i] is the number of times the engine
\* was applied to the plane at index i.
RECURSIVE EnginePass(_, _, _, _)
EnginePass(planes, gates, count, i) ==
  IF i > Len(planes)
  THEN [planes |-> planes, gates |-> gates, fault |-> "none", count |-> count]
  ELSE IF planes[i].out_of_map
  THEN EnginePass(planes, gates, count, i + 1)
  ELSE LET r == StepPlane(planes[i], gates)
           c == [count EXCEPT ![i] = @ + 1]
       IN IF r.fault # "none"
          THEN [planes |-> planes, gates |-> gates, fault |-> r.fault, count |-> c]
          ELSE EnginePass([planes EXCEPT ![i] = r.plane], r.gates, c, i + 1)

\* an engine that makes its pass over the fleet twice
EnginePassTwice(planes, gates) ==
  CHOOSE r \in
    { IF first.fault # "none" THEN first
      ELSE EnginePass(first.planes, first.gates, first.count, 1)
      : first \in {EnginePass(planes, gates, [i \in 1 .. Len(planes) |-> 0], 1)} } :
    TRUE

update_aircraft_position(planes, gates) ==
  EnginePass(planes, gates, [i \in 1 .. Len(planes) |-> 0], 1)

\* ------------------------------------------------------ Command validator
\* str::to_lowercase on the aircraft names and name tokens of the model
to_lowercase(s) ==
  CASE s = "AA117" -> "aa117"
    [] s = "DL200" -> "dl200"
    [] s = "UA303" -> "ua303"
    [] OTHER       -> s

valid_commands == {"hp", "p", "l", "t", "tor", "hs", "t2r", "t2g"}

\* Result<Plane, String>: Err(reason) and Ok(plane)
Reject(reason) == [status |-> "err", reason |-> reason, plane |-> <<>>]
Accept(plane)  == [status |-> "ok", reason |-> "", plane |-> plane]
\* the tick's record of the handler when try_recv found nothing
NoCommand == [command |-> <<>>, status |-> "none", reason |-> "", plane |-> <<>>]

\* planes.iter().find(|plane| plane.name.to_lowercase() == aircraft): the index
\* of the first plane of that name, 0 when there is none
FindPlane(planes, aircraft) ==
  LET hits == {i \in 1 .. Len(planes) : to_lowercase(planes[i].name) = aircraft}
  IN IF hits = {} THEN 0 ELSE CHOOSE i \in hits : \A j \in hits : i <= j

\* the match on keyword that builds the requested action
RequestedAction(keyword, destination_num) ==
  CASE keyword = "l"   -> Act("Land")
    [] keyword = "t"   -> Act("Takeoff")
    [] keyword = "hp"  -> Act("HoldPosition")
    [] keyword = "p"   -> Act("Pushback")
    [] keyword = "tor" -> TaxiOntoRunwayAct(parse_usize(destination_num).val)
    [] keyword = "hs"  -> Act("HoldShort")
    [] keyword = "t2g" -> TaxiToGateAct(destination_num)
    [] OTHER           -> Act("HoldPosition")

InclementReason == "Cannot takeoff during inclement weather, return back to the gate"

\* The match on plane.current_action, one operator per arm: "" when the
\* transition is allowed, otherwise the reason of the rejection.
\* a validator whose InAir arm lets a hold through
FromInAirAllowsHold(action) ==
  IF action.kind = "HoldPosition" THEN ""
  ELSE "Not a valid action when plane is in the air"

FromInAir(action) == "Not a valid action when plane is in the air"
FromLand(action) == "Not a valid action when in the process of landing"
FromTakeoff(action) == "Not a valid action when in the process of takeoff"
FromPushback(action) == "Not a valid action when in the process of pushback"

\* a validator whose HoldPosition arm also lists Takeoff
FromHoldPositionAlsoTakeoff(action) ==
  IF action.kind \in {"TaxiToGate", "HoldShort", "TaxiOntoRunway", "Takeoff"} THEN ""
  ELSE "Not a valid action when holding position"

FromHoldPosition(action) ==
  IF action.kind \in {"TaxiToGate", "HoldShort", "TaxiOntoRunway"} THEN ""
  ELSE "Not a valid action when holding position"

FromTaxiOntoRunway(action, condition) ==
  IF action.kind \in {"HoldPosition", "HoldShort", "TaxiToGate"} THEN ""
  ELSE IF action.kind = "Takeoff"
  THEN IF condition = "InclementWeather" THEN InclementReason ELSE ""
  ELSE "Not a valid action when taxiing onto runway"

\* a validator whose HoldShort arm does not look at the weather
FromHoldShortAnyWeather(action, condition) ==
  IF action.kind \in {"HoldPosition", "TaxiOntoRunway", "Takeoff"} THEN ""
  ELSE "Not a valid action when holding short"

FromHoldShort(action, condition) ==
  IF action.kind \in {"HoldPosition", "TaxiOntoRunway"} THEN ""
  ELSE IF action.kind = "Takeoff"
  THEN IF condition = "InclementWeather" THEN InclementReason ELSE ""
  ELSE "Not a valid action when holding short"

FromTaxiToGate(action) ==
  IF action.kind = "HoldPosition" THEN ""
  ELSE "Not a valid action when taxiing to gate"

\* a validator whose AtGate arm does not wait for the end of the turnaround
FromAtGateAnyStep(at_gate_action, action, condition) ==
  IF action.kind = "Pushback"
  THEN IF condition = "InclementWeather"
       THEN "Cannot pushback during inclement weather"
       ELSE ""
  ELSE "Not a valid action when at gate"

FromAtGate(at_gate_action, action, condition) ==
  IF action.kind = "Pushback"
  THEN IF at_gate_action # "Standby"
       THEN "Wait for the plane to finish its turnaround process"
       ELSE IF condition = "InclementWeather"
       THEN "Cannot pushback during inclement weather"
       ELSE ""
  ELSE "Not a valid action when at gate"

TransitionError(current_action, action, condition) ==
  LET cur == current_action.kind
  IN CASE cur = "InAir" -> FromInAir(action)
       [] cur = "Land" -> FromLand(action)
       [] cur = "Takeoff" -> FromTakeoff(action)
       [] cur = "HoldPosition" -> FromHoldPosition(action)
       [] cur = "TaxiOntoRunway" -> FromTaxiOntoRunway(action, condition)
       [] cur = "HoldShort" -> FromHoldShort(action, condition)
       [] cur = "TaxiToGate" -> FromTaxiToGate(action)
       [] cur = "Pushback" -> FromPushback(action)
       [] OTHER -> FromAtGate(current_action.sub, action, condition)

\* a validator that checks the runway of the line but does not assign it
ParseKeepsRunway(command, planes, condition) ==
  IF Len(command) > 3 \/ Len(command) < 2
  THEN Reject("Wrong user input length.")
  ELSE
    LET keyword == command[1]
        found == FindPlane(planes, to_lowercase(command[2]))
        takes_destination == keyword # "hp" /\ keyword # "p"
        destination_num == IF takes_destination THEN command[3] ELSE ""
        named_runway == takes_destination /\ keyword # "t2g"
        action == RequestedAction(keyword, destination_num)
        refusal == TransitionError(planes[found].current_action, action, condition)
    IN IF found = 0 THEN Reject("Plane not found")
       ELSE IF keyword \notin valid_commands THEN Reject("Invalid command: " \o keyword)
       ELSE IF takes_destination /\ Len(command) # 3
       THEN Reject("Must contain a runway/gate/terminal number")
       ELSE IF named_runway /\ destination_num \notin DOMAIN runways
       THEN Reject("Runway not found")
       ELSE IF refusal # "" THEN Reject(refusal)
       ELSE Accept([planes[found] EXCEPT !.current_action = action])

\* parse_user_input: command is the list of the line's whitespace-separated
\* tokens.  The unwrap of the parse of a tor destination cannot fail: the keys
\* of the runway registry are numbers.
parse_user_input(command, planes, condition) ==
  IF Len(command) > 3 \/ Len(command) < 2
  THEN Reject("Wrong user input length.")
  ELSE
    LET keyword == command[1]
        aircraft == to_lowercase(command[2])
        found == FindPlane(planes, aircraft)
        takes_destination == keyword # "hp" /\ keyword # "p"
        destination_num == IF takes_destination THEN command[3] ELSE ""
        named_runway == takes_destination /\ keyword # "t2g"
        plane == IF named_runway
                 THEN [planes[found] EXCEPT !.runway = runways[destination_num]]
                 ELSE planes[found]
        action == RequestedAction(keyword, destination_num)
        refusal == TransitionError(plane.current_action, action, condition)
    IN IF found = 0 THEN Reject("Plane not found")
       ELSE IF keyword \notin valid_commands THEN Reject("Invalid command: " \o keyword)
       ELSE IF takes_destination /\ Len(command) # 3
       THEN Reject("Must contain a runway/gate/terminal number")
       ELSE IF named_runway /\ destination_num \notin DOMAIN runways
       THEN Reject("Runway not found")
       ELSE IF refusal # "" THEN Reject(refusal)
       ELSE Accept([plane EXCEPT !.current_action = action])

\* ------------------------------------------------------ Collision detector
\* a detector that does not look at out_of_map
FirstHitCountsExited(fleet, i) ==
  LET hits == {j \in i + 1 .. Len(fleet) :
                 /\ fleet[i].position = fleet[j].position
                 /\ fleet[i].id # fleet[j].id}
  IN IF hits = {} THEN 0 ELSE CHOOSE j \in hits : \A k \in hits : j <= k

\* the inner loop of detect_and_handle_collisions for the plane at index i: the
\* first index after i of a plane it collides with, 0 when there is none
FirstHit(fleet, i) ==
  LET hits == {j \in i + 1 .. Len(fleet) :
                 /\ fleet[i].position = fleet[j].position
                 /\ fleet[i].id # fleet[j].id
                 /\ fleet[i].out_of_map = FALSE
                 /\ fleet[j].out_of_map = FALSE}
  IN IF hits = {} THEN 0 ELSE CHOOSE j \in hits : \A k \in hits : j <= k

\* the outer loop: the break leaves the inner loop only, so a later plane's
\* hit replaces an earlier one.  <<>> is None, <<id, id>> the pair kept.
RECURSIVE CollisionScan(_, _, _)
CollisionScan(fleet, i, crashed) ==
  IF i > Len(fleet) THEN crashed
  ELSE IF FirstHit(fleet, i) # 0
  THEN CollisionScan(fleet, i + 1, <<fleet[i].id, fleet[FirstHit(fleet, i)].id>>)
  ELSE CollisionScan(fleet, i + 1, crashed)

detect_collisions(fleet) == CollisionScan(fleet, 1, <<>>)

\* ------------------------------------------------------------------- State
VARIABLES
  planes,          \* airport.planes
  gates,           \* airport.gates
  weather,         \* airport.weather.condition
  aoc,             \* AOC.message
  queue,           \* the channel between user_input_thread and the tick loop
  score,           \* Score {takeoff, crash}
  timer,           \* the tick counter of main
  pc,              \* the step of update_game_state the tick loop is at
  fault,           \* the panic that ended the process, "none" while it runs
  result,          \* what parse_user_input returned in this tick
  engine_runs,     \* per plane index: engine applications in this tick
  map,             \* airport.map.map, the rows of the padded grid
  crashed_planes   \* the pair the collision message names, <<>> when none

vars == <<planes, gates, weather, aoc, queue, score, timer, pc, fault, result,
          engine_runs, map, crashed_planes>>

\* build_airport_map: the grid of the map file with its margins, row by row
AirportMap ==
  [row \in 1 .. MapRows |-> [col \in 1 .. MapCols |-> MapAt(<<row - 1, col - 1>>)]]

PlaneNames == {"AA117", "DL200"}
InclementAlert == "Airport Operations Center (AOC): all departing flights halted"

NewPlane(id, name, action, position) ==
  [id |-> id, name |-> name, current_action |-> action, position |-> position,
   runway |-> runways["1"], out_of_map |-> FALSE]

\* construct_airport, then spawn_landing_aircraft(airport, true) in main: one
\* plane on standby at a gate chosen at random, under a random name
Init ==
  /\ ~DuplicateGate
  /\ \E g \in DOMAIN NewGates, n \in PlaneNames :
       planes = <<NewPlane(1, n, AtGateAct(g, "Standby"), NewGates[g].position)>>
  /\ gates = NewGates
  /\ weather = "Clear"
  /\ aoc = ""
  /\ queue = <<>>
  /\ score = [takeoff |-> 0, crash |-> 0]
  /\ timer = 0
  /\ pc = "move"
  /\ fault = "none"
  /\ result = NoCommand
  /\ engine_runs = <<0>>
  /\ map = AirportMap
  /\ crashed_planes = <<>>

Running == fault = "none" /\ pc # "done"

\* a restore that does not compare ids
RestoreFleetAnyId(keep_aside_fleet, plane) ==
  [i \in 1 .. Len(keep_aside_fleet) |-> plane]

\* the restore of the fleet in update_aircraft_from_user_input: the plane of
\* the re-run replaces every plane of the same id
RestoreFleet(keep_aside_fleet, plane) ==
  [i \in 1 .. Len(keep_aside_fleet) |->
     IF keep_aside_fleet[i].id = plane.id THEN plane ELSE keep_aside_fleet[i]]

\* an error branch that leaves the runway of the validator's copy in the fleet
HandleErrKeepsRunway(command, fleet, registry, parsed) ==
  [planes |-> [i \in 1 .. Len(fleet) |->
                 IF Len(command) = 3 /\ command[3] \in DOMAIN runways
                 THEN [fleet[i] EXCEPT !.runway = runways[command[3]]]
                 ELSE fleet[i]],
   gates |-> registry, fault |-> "none",
   result |-> [command |-> command, status |-> parsed.status,
               reason |-> parsed.reason, plane |-> parsed.plane],
   runs |-> [i \in 1 .. Len(fleet) |-> 0]]

\* update_aircraft_from_user_input, the branch of plane.is_err(): the reason
\* goes to the ERROR panel, the airport is not written
HandleErr(command, fleet, registry, parsed) ==
  [planes |-> fleet, gates |-> registry, fault |-> "none",
   result |-> [command |-> command, status |-> parsed.status,
               reason |-> parsed.reason, plane |-> parsed.plane],
   runs |-> [i \in 1 .. Len(fleet) |-> 0]]

\* update_aircraft_from_user_input, the branch of plane.is_ok(): the engine is
\* run on the returned plane alone and the fleet restored.  runs[i] is the
\* number of engine applications this added to the plane at index i.
HandleOk(command, fleet, registry, parsed) ==
  CHOOSE r \in
    { IF rerun.fault # "none"
      THEN [HandleErr(command, fleet, registry, parsed) EXCEPT !.fault = rerun.fault]
      ELSE [planes |-> RestoreFleet(fleet, rerun.planes[1]),
            gates |-> rerun.gates, fault |-> "none",
            result |-> [command |-> command, status |-> parsed.status,
                        reason |-> parsed.reason, plane |-> parsed.plane],
            runs |-> [i \in 1 .. Len(fleet) |->
                        IF fleet[i].id = parsed.plane.id
                        THEN rerun.count[1] ELSE 0]]
      : rerun \in {update_aircraft_position(<<parsed.plane>>, registry)} } :
    TRUE

\* update_aircraft_from_user_input for a received line
update_aircraft_from_user_input(command, fleet, registry, condition) ==
  CHOOSE r \in { IF parsed.status = "err"
                 THEN HandleErr(command, fleet, registry, parsed)
                 ELSE HandleOk(command, fleet, registry, parsed)
                 : parsed \in {parse_user_input(command, fleet, condition)} } : TRUE

\* update_game_state, first call: update_aircraft_position(airport).  A panic
\* ends the process: the model keeps the state and records the panic.
Move(limit) ==
  /\ Running /\ pc = "move" /\ timer < limit
  /\ \E r \in {update_aircraft_position(planes, gates)} :
       IF r.fault # "none"
       THEN /\ fault' = r.fault
            /\ UNCHANGED <<planes, gates, engine_runs, pc>>
       ELSE /\ planes' = r.planes
            /\ gates' = r.gates
            /\ engine_runs' = r.count
            /\ pc' = "input"
            /\ fault' = fault
  /\ UNCHANGED <<map, weather, aoc, queue, score, timer, result, crashed_planes>>

\* a command step that empties the channel
InputDrains ==
  /\ Running /\ pc = "input"
  /\ IF queue = <<>>
     THEN /\ pc' = "score"
          /\ UNCHANGED <<planes, gates, fault, queue, result, engine_runs>>
     ELSE \E r \in {update_aircraft_from_user_input(Head(queue), planes, gates, weather)} :
            /\ queue' = <<>>
            /\ result' = r.result
            /\ planes' = r.planes
            /\ gates' = r.gates
            /\ fault' = r.fault
            /\ engine_runs' = [i \in 1 .. Len(planes) |-> engine_runs[i] + r.runs[i]]
            /\ pc' = IF r.fault # "none" THEN pc ELSE "score"
  /\ UNCHANGED <<map, weather, aoc, score, timer, crashed_planes>>

\* update_game_state, second call: one try_recv, then the handling of the line
Input ==
  /\ Running /\ pc = "input"
  /\ IF queue = <<>>
     THEN /\ pc' = "score"
          /\ UNCHANGED <<planes, gates, fault, queue, result, engine_runs>>
     ELSE \E r \in {update_aircraft_from_user_input(Head(queue), planes, gates, weather)} :
            /\ queue' = Tail(queue)
            /\ result' = r.result
            /\ planes' = r.planes
            /\ gates' = r.gates
            /\ fault' = r.fault
            /\ engine_runs' = [i \in 1 .. Len(planes) |-> engine_runs[i] + r.runs[i]]
            /\ pc' = IF r.fault # "none" THEN pc ELSE "score"
  /\ UNCHANGED <<map, weather, aoc, score, timer, crashed_planes>>

\* a score step that hands over to the collision detector
UpdateScoreThenCollide ==
  /\ Running /\ pc = "score"
  /\ score' = [score EXCEPT !.takeoff =
                 Cardinality({i \in 1 .. Len(planes) : planes[i].out_of_map})]
  /\ pc' = "collide"
  /\ UNCHANGED <<map, planes, gates, weather, aoc, queue, timer, fault, result,
                 engine_runs, crashed_planes>>

\* update_score
UpdateScore ==
  /\ Running /\ pc = "score"
  /\ score' = [score EXCEPT !.takeoff =
                 Cardinality({i \in 1 .. Len(planes) : planes[i].out_of_map})]
  /\ pc' = "weather"
  /\ UNCHANGED <<map, planes, gates, weather, aoc, queue, timer, fault, result,
                 engine_runs, crashed_planes>>

\* a weather refresh that leaves the alert standing when the weather clears
WeatherKeepsAlert ==
  /\ Running /\ pc = "weather"
  /\ \/ /\ weather = "Clear"
        /\ \/ weather' = "Rain" /\ aoc' = aoc
           \/ weather' = "InclementWeather" /\ aoc' = InclementAlert
           \/ weather' = "Clear" /\ aoc' = aoc
     \/ /\ weather = "Rain"
        /\ weather' \in {"Rain", "Clear"}
        /\ aoc' = aoc
     \/ /\ weather = "InclementWeather"
        /\ weather' \in {"InclementWeather", "Clear"}
        /\ aoc' = aoc
  /\ pc' = "spawn"
  /\ UNCHANGED <<map, planes, gates, queue, score, timer, fault, result,
                 engine_runs, crashed_planes>>

\* simulate_weather: the random draws are choices
Weather ==
  /\ Running /\ pc = "weather"
  /\ \/ /\ weather = "Clear"
        /\ \/ weather' = "Rain" /\ aoc' = aoc
           \/ weather' = "InclementWeather" /\ aoc' = InclementAlert
           \/ weather' = "Clear" /\ aoc' = aoc
     \/ /\ weather = "Rain"
        /\ weather' \in {"Rain", "Clear"}
        /\ aoc' = aoc
     \/ /\ weather = "InclementWeather"
        /\ \/ weather' = "InclementWeather" /\ aoc' = aoc
           \/ weather' = "Clear" /\ aoc' = ""
  /\ pc' = "spawn"
  /\ UNCHANGED <<map, planes, gates, queue, score, timer, fault, result,
                 engine_runs, crashed_planes>>

\* spawn_landing_aircraft(airport, false) when timer % LANDING_INTERVAL == 0
Spawn ==
  /\ Running /\ pc = "spawn"
  /\ IF timer % LANDING_INTERVAL = 0
     THEN \E n \in PlaneNames :
            /\ planes' = Append(planes,
                 NewPlane(Len(planes) + 1, n, Act("InAir"), <<top_bottom, 0>>))
            /\ engine_runs' = Append(engine_runs, 0)
     ELSE UNCHANGED <<planes, engine_runs>>
  /\ pc' = "collide"
  /\ UNCHANGED <<map, gates, weather, aoc, queue, score, timer, fault, result,
                 crashed_planes>>

\* detect_and_handle_collisions
Collide ==
  /\ Running /\ pc = "collide"
  /\ crashed_planes' = detect_collisions(planes)
  /\ score' = [score EXCEPT !.crash =
                 IF detect_collisions(planes) # <<>> THEN @ + 1 ELSE @]
  /\ pc' = "loop"
  /\ UNCHANGED <<map, planes, gates, weather, aoc, queue, timer, fault, result,
                 engine_runs>>

\* a loop of main without the break
LoopEndGoesOn ==
  /\ Running /\ pc = "loop"
  /\ timer' = timer + 1
  /\ pc' = "move"
  /\ result' = NoCommand
  /\ engine_runs' = [i \in 1 .. Len(planes) |-> 0]
  /\ UNCHANGED <<map, planes, gates, weather, aoc, queue, score, fault, crashed_planes>>

\* the end of the loop body of main: timer += 1, break when score.crash > 0
LoopEnd ==
  /\ Running /\ pc = "loop"
  /\ timer' = timer + 1
  /\ pc' = IF score.crash > 0 THEN "done" ELSE "move"
  /\ result' = NoCommand
  /\ engine_runs' = [i \in 1 .. Len(planes) |-> 0]
  /\ UNCHANGED <<map, planes, gates, weather, aoc, queue, score, fault, crashed_planes>>

\* a channel that hands the newest line over first
EnqueueInFront(command, limit) ==
  /\ Running
  /\ Len(queue) < limit
  /\ queue' = <<command>> \o queue
  /\ UNCHANGED <<map, planes, gates, weather, aoc, score, timer, pc, fault, result,
                 engine_runs, crashed_planes>>

\* user_input_thread: sender.send(user_input), at any moment; the channel is
\* unbounded, the model lets at most limit lines wait in it
Enqueue(command, limit) ==
  /\ Running
  /\ Len(queue) < limit
  /\ queue' = Append(queue, command)
  /\ UNCHANGED <<map, planes, gates, weather, aoc, score, timer, pc, fault, result,
                 engine_runs, crashed_planes>>

Send(command) == Enqueue(command, MaxQueue)

\* the operator lines of the model's runs
Commands ==
  { <<"p", "AA117">>, <<"hp", "aa117">>, <<"tor", "AA117", "1">>,
    <<"hs", "AA117", "1">>, <<"t2g", "AA117", "A">>, <<"t", "AA117", "1">>,
    <<"t2g", "DL200", "B">> }

Tick == Move(MaxTicks) \/ Input \/ UpdateScore \/ Weather \/ Spawn \/ Collide \/ LoopEnd

Next == Tick \/ \E command \in Commands : Send(command)

Spec == Init /\ [][Next]_vars

\* ------------------------------------------------------ Lines that wait
\* The program from its start with an operator who types faster than the tick:
\* up to QueueDepth lines wait in the channel.
QueueDepth == 2
QueueLines == { <<"p", "AA117">>, <<"hp", "AA117">> }

NextQueue == Tick \/ \E command \in QueueLines : Enqueue(command, QueueDepth)

SpecQueue == Init /\ [][NextQueue]_vars

\* the same program with a tick loop that keeps running: main sleeps and calls
\* update_game_state again until the run ends
\* the user has typed a pushback line, and possibly a second line, before the
\* first tick
InitDepart ==
  /\ ~DuplicateGate
  /\ \E g \in DOMAIN NewGates :
       planes = <<NewPlane(1, "AA117", AtGateAct(g, "Standby"), NewGates[g].position)>>
  /\ gates = NewGates
  /\ weather = "Clear"
  /\ aoc = ""
  /\ queue \in { <<<<"p", "AA117">>>>, <<<<"p", "AA117">>, <<"hp", "AA117">>>> }
  /\ score = [takeoff |-> 0, crash |-> 0]
  /\ timer = 0
  /\ pc = "move"
  /\ fault = "none"
  /\ result = NoCommand
  /\ engine_runs = <<0>>
  /\ map = AirportMap
  /\ crashed_planes = <<>>

SpecDepart == InitDepart /\ [][Tick]_vars /\ WF_vars(Tick)

\* ------------------------------------------------- The gate registry of a grid
\* Gate::new on a grid m given as its rows: the scan meets the Gate cells row
\* by row and panics at the second cell of a gate number.
GateCellsOf(m) ==
  {q \in (1 .. Len(m)) \X (1 .. Len(m[1])) : m[q[1]][q[2]].kind = "Gate"}

\* a scan that lets a second cell of a gate number pass
GateNewNeverPanics(m) == FALSE

GateNewPanics(m) ==
  \E q \in GateCellsOf(m), o \in GateCellsOf(m) :
    q # o /\ m[q[1]][q[2]].label = m[o[1]][o[2]].label

GateNew(m) ==
  [g \in {m[q[1]][q[2]].label : q \in GateCellsOf(m)} |->
     LET q == CHOOSE q \in GateCellsOf(m) : m[q[1]][q[2]].label = g
     IN [number |-> g, position |-> <<q[1] - 1, q[2] - 1>>, is_occupied |-> FALSE]]

\* the grids of two rows and three columns over four kinds of cell
BuildCells == {EmptyPt, TaxiwayPt(1, "North"), GatePt("A"), GatePt("B")}
BuildGrids == [1 .. 2 -> [1 .. 3 -> BuildCells]]

\* construct_airport at its call of Gate::new
InitBuild ==
  /\ map \in BuildGrids
  /\ gates = <<>>
  /\ planes = <<>>
  /\ weather = "Clear"
  /\ aoc = ""
  /\ queue = <<>>
  /\ score = [takeoff |-> 0, crash |-> 0]
  /\ timer = 0
  /\ pc = "construct"
  /\ fault = "none"
  /\ result = NoCommand
  /\ engine_runs = <<>>
  /\ crashed_planes = <<>>

Construct ==
  /\ fault = "none" /\ pc = "construct"
  /\ IF GateNewPanics(map)
     THEN fault' = "Duplicate gate number" /\ UNCHANGED <<gates, pc>>
     ELSE gates' = GateNew(map) /\ pc' = "constructed" /\ fault' = fault
  /\ UNCHANGED <<map, planes, weather, aoc, queue, score, timer, result,
                 engine_runs, crashed_planes>>

NextBuild == Construct

SpecBuild == InitBuild /\ [][NextBuild]_vars

\* ------------------------------------------------- Pushback from a gate
\* The Pushback arm on small map files.
\* the grids of three rows and three columns with gate A in the middle, the
\* corners empty, and each of the four cells next to the gate empty, a taxiway,
\* a line cell of gate A or a line cell of gate B
PushCells ==
  {EmptyPt, TaxiwayPt(1, "North"), GateTaxiLinePt("A", "West"), GateTaxiLinePt("B", "East")}
PushGate == <<1, 1>>
PushGrids ==
  { << <<EmptyPt, n, EmptyPt>>, <<w, GatePt("A"), e>>, <<EmptyPt, s, EmptyPt>> >>
      : n \in PushCells, s \in PushCells, e \in PushCells, w \in PushCells }

\* the re-run of the engine after "p" was granted to the plane at gate A
InitPush ==
  /\ map \in PushGrids
  /\ gates = GateNew(map)
  /\ planes = << NewPlane(1, "AA117", Act("Pushback"), PushGate) >>
  /\ weather = "Clear"
  /\ aoc = ""
  /\ queue = <<>>
  /\ score = [takeoff |-> 0, crash |-> 0]
  /\ timer = 0
  /\ pc = "push"
  /\ fault = "none"
  /\ result = NoCommand
  /\ engine_runs = <<0>>
  /\ crashed_planes = <<>>

Push ==
  /\ fault = "none" /\ pc = "push"
  /\ \E r \in {StepPushbackIn(map, planes[1], gates)} :
       IF r.fault # "none"
       THEN fault' = r.fault /\ UNCHANGED <<planes, gates, engine_runs, pc>>
       ELSE /\ planes' = <<r.plane>>
            /\ gates' = r.gates
            /\ engine_runs' = <<1>>
            /\ pc' = "pushed"
            /\ fault' = fault
  /\ UNCHANGED <<map, weather, aoc, queue, score, timer, result, crashed_planes>>

NextPush == Push

SpecPush == InitPush /\ [][NextPush]_vars

\* ------------------------------------------------- A step and the step back
\* Direction::go and Direction::get_opposite_dir on every cell of the grid and
\* every direction: planes[1] is stepped along the side of its runway record
\* and then along the opposite, planes[2] stays where planes[1] started.  A
\* subtraction below 0 panics in a build with overflow checks and wraps in one
\* without; a coordinate of -1 stands for the wrapped value usize::MAX.
InitWalk ==
  /\ \E position \in AllPositions, d \in Directions :
       planes = << [NewPlane(1, "AA117", Act("HoldPosition"), position)
                      EXCEPT !.runway.side = d],
                   [NewPlane(2, "DL200", Act("HoldPosition"), position)
                      EXCEPT !.runway.side = d] >>
  /\ gates = NewGates
  /\ weather = "Clear"
  /\ aoc = ""
  /\ queue = <<>>
  /\ score = [takeoff |-> 0, crash |-> 0]
  /\ timer = 0
  /\ pc = "go"
  /\ fault = "none"
  /\ result = NoCommand
  /\ engine_runs = <<0, 0>>
  /\ map = AirportMap
  /\ crashed_planes = <<>>

\* one call of Direction::go on planes[1]
Step(d, next) ==
  /\ \/ /\ planes' = [planes EXCEPT ![1].position = go(d, @)]
        /\ pc' = next
        /\ fault' = fault
     \/ /\ Underflow(d, planes[1].position)
        /\ fault' = "attempt to subtract with overflow"
        /\ UNCHANGED <<planes, pc>>
  /\ UNCHANGED <<map, gates, weather, aoc, queue, score, timer, result, engine_runs,
                 crashed_planes>>

GoOut == fault = "none" /\ pc = "go" /\ Step(planes[1].runway.side, "back")

GoBack ==
  fault = "none" /\ pc = "back"
    /\ Step(get_opposite_dir(planes[1].runway.side), "home")

NextWalk == GoOut \/ GoBack

SpecWalk == InitWalk /\ [][NextWalk]_vars

\* ------------------------------------------------- One step of a landing
\* The Land arm of the engine on every cell of the grid and every side of the
\* runway record: one pass over a fleet of one plane in Land.
InitLand ==
  /\ \E position \in AllPositions, d \in Directions :
       planes = << [NewPlane(1, "DL200", Act("Land"), position)
                      EXCEPT !.runway.side = d] >>
  /\ gates = NewGates
  /\ weather = "Clear"
  /\ aoc = ""
  /\ queue = <<>>
  /\ score = [takeoff |-> 0, crash |-> 0]
  /\ timer = 0
  /\ pc = "move"
  /\ fault = "none"
  /\ result = NoCommand
  /\ engine_runs = <<0>>
  /\ map = AirportMap
  /\ crashed_planes = <<>>

NextLand == Move(MaxTicks)

SpecLand == InitLand /\ [][NextLand]_vars

\* ------------------------------------------------- One step of every rule
\* The engine applied to one plane in each action that moves, on every cell
\* of the grid: one pass over a fleet of one plane.
ArmActions ==
  { Act("InAir"), Act("Land"), Act("Takeoff"), Act("HoldShort"), Act("Pushback"),
    TaxiOntoRunwayAct(1), TaxiToGateAct("A"), TaxiToGateAct("B") }

InitArm ==
  /\ \E position \in AllPositions, action \in ArmActions :
       planes = << NewPlane(1, "AA117", action, position) >>
  /\ gates = NewGates
  /\ weather = "Clear"
  /\ aoc = ""
  /\ queue = <<>>
  /\ score = [takeoff |-> 0, crash |-> 0]
  /\ timer = 0
  /\ pc = "move"
  /\ fault = "none"
  /\ result = NoCommand
  /\ engine_runs = <<0>>
  /\ map = AirportMap
  /\ crashed_planes = <<>>

SpecArm == InitArm /\ [][NextLand]_vars

\* ------------------------------------------------- The first arrival, no command
\* The program from its start with nothing typed.  The loop of main runs its
\* body again and again (a sleep, then update_game_state), so a step of the
\* body that can be taken is taken.
NextApproach == Tick

SpecApproach == Init /\ [][NextApproach]_vars /\ WF_vars(NextApproach)

\* ------------------------------------------------- One command, one handling
\* The handling of one received line, taken from states the tick loop is in
\* when it calls update_aircraft_from_user_input: the first tick, the ticks of
\* the approach of the first arrival, and a late tick at which the arrival
\* holds at the end of its landing roll and the first plane is anywhere on the
\* ground, at a gate, in its takeoff run or gone.

CmdTick == 25

\* position of the cell at (row, col) of the map file, both counted from 0
Cell(row, col) == <<top_bottom + row, left_right + col>>

Occupied(taken) ==
  [g \in DOMAIN NewGates |-> [NewGates[g] EXCEPT !.is_occupied = (g \in taken)]]

Scene(fleet, taken, runs, takeoffs, tick) ==
  [planes |-> fleet, gates |-> Occupied(taken), engine_runs |-> runs,
   score |-> [takeoff |-> takeoffs, crash |-> 0], timer |-> tick]

Parked(g) == NewPlane(1, "AA117", AtGateAct(g, "Standby"), NewGates[g].position)
Arrival(action, position) == NewPlane(2, "DL200", action, position)
Holding == Arrival(Act("HoldPosition"), Cell(0, 4))

FirstTickScenes ==
  { Scene(<<Parked(g)>>, {}, <<1>>, 0, 0) : g \in DOMAIN NewGates }

ApproachScenes ==
  { Scene(<<Parked(g), Arrival(Act("InAir"), <<top_bottom, c>>)>>, {}, <<1, 1>>, 0, c)
      : g \in DOMAIN NewGates, c \in 1 .. left_right }
  \cup
  { Scene(<<Parked(g), Arrival(Act("Land"), Cell(0, c))>>, {}, <<1, 1>>, 0, left_right + c)
      : g \in DOMAIN NewGates, c \in 1 .. 3 }

\* the first plane on the ground: its action and the cells it is met on
GroundStates ==
  { <<Act("HoldPosition"), c>> :
      c \in { <<0, 2>>, <<0, 3>>, <<1, 2>>, <<1, 4>>, <<1, 5>>, <<1, 6>>, <<1, 7>>,
              <<2, 0>>, <<2, 1>>, <<2, 2>>, <<2, 3>>, <<2, 4>> } }
  \cup { <<Act("HoldShort"), c>> : c \in { <<1, 2>>, <<2, 2>>, <<2, 3>> } }
  \cup { <<Act("Pushback"), c>> : c \in { <<1, 5>> } }
  \cup { <<TaxiOntoRunwayAct(1), c>> :
           c \in { <<0, 2>>, <<1, 2>>, <<2, 2>>, <<2, 3>>, <<2, 4>> } }
  \cup { <<TaxiOntoRunwayAct(0), c>> : c \in { <<0, 2>> } }
  \cup { <<TaxiToGateAct("A"), c>> :
           c \in { <<0, 3>>, <<0, 4>>, <<1, 7>>, <<2, 0>>, <<2, 1>>, <<2, 2>>,
                   <<2, 3>>, <<2, 4>> } }
  \cup { <<TaxiToGateAct("B"), c>> :
           c \in { <<0, 2>>, <<0, 3>>, <<0, 4>>, <<1, 2>>, <<1, 5>>, <<1, 6>>,
                   <<1, 7>>, <<2, 2>> } }
  \cup { <<Act("Takeoff"), c>> : c \in { <<0, 4>>, <<0, 6>> } }

LateScenes ==
  { Scene(<<NewPlane(1, "AA117", s[1], Cell(s[2][1], s[2][2])), Holding>>,
          taken, <<1, 1>>, 0, CmdTick)
      : s \in GroundStates, taken \in { {}, {"A"}, {"B"} } }
  \cup
  { Scene(<<NewPlane(1, "AA117", AtGateAct(g, sub), NewGates[g].position), Holding>>,
          {g}, <<1, 1>>, 0, CmdTick)
      : g \in DOMAIN NewGates, sub \in { AtGateActions[i] : i \in DOMAIN AtGateActions } }
  \cup
  { Scene(<<Parked(g), Holding>>, {}, <<1, 1>>, 0, CmdTick) : g \in DOMAIN NewGates }
  \cup
  { Scene(<<[NewPlane(1, "AA117", Act("Takeoff"), <<top_bottom, MapCols - 1>>)
               EXCEPT !.out_of_map = TRUE], Holding>>,
          {}, <<0, 1>>, 1, CmdTick) }

CmdScenes == FirstTickScenes \cup ApproachScenes \cup LateScenes

\* the lines the operator may type, as token lists: the documented grammar,
\* the undocumented keyword, an unknown keyword, unknown aircraft, runways and
\* gates, a missing and a surplus token
CmdKeywords == valid_commands \cup {"land"}
CmdAircraft == {"AA117", "DL200", "aa117", "UA303"}
CmdDestinations == {"0", "1", "7", "A", "B", "C"}
CmdAlphabet ==
  { <<k, a>> : k \in CmdKeywords, a \in CmdAircraft }
  \cup { <<k, a, d>> : k \in CmdKeywords, a \in CmdAircraft, d \in CmdDestinations }
  \cup { <<"hp">>, <<"t", "AA117", "1", "now">> }

Weathers == {"Clear", "Rain", "InclementWeather"}

InitCmd ==
  /\ ~DuplicateGate
  /\ \E s \in CmdScenes :
       /\ planes = s.planes
       /\ gates = s.gates
       /\ engine_runs = s.engine_runs
       /\ score = s.score
       /\ timer = s.timer
  /\ weather \in Weathers
  /\ aoc = IF weather = "InclementWeather" THEN InclementAlert ELSE ""
  /\ queue \in {<<>>} \cup { <<command>> : command \in CmdAlphabet }
  /\ pc = "input"
  /\ fault = "none"
  /\ result = NoCommand
  /\ map = AirportMap
  /\ crashed_planes = <<>>

NextCmd == Input

SpecCmd == InitCmd /\ [][NextCmd]_vars

\* ------------------------------------------------- A turnaround, no command
\* The ticks after an arrival at a gate: the first plane has taken
\* AtGate(g, ShutdownProcedure) in the pass of tick CmdTick, the second holds
\* at the end of its landing roll, and the operator types nothing.
InitGate ==
  /\ ~DuplicateGate
  /\ \E g \in DOMAIN NewGates :
       /\ planes = << NewPlane(1, "AA117", AtGateAct(g, "ShutdownProcedure"),
                               NewGates[g].position),
                      Holding >>
       /\ gates = Occupied({g})
  /\ engine_runs = <<1, 1>>
  /\ score = [takeoff |-> 0, crash |-> 0]
  /\ timer = CmdTick
  /\ weather \in Weathers
  /\ aoc = IF weather = "InclementWeather" THEN InclementAlert ELSE ""
  /\ queue = <<>>
  /\ pc = "input"
  /\ fault = "none"
  /\ result = NoCommand
  /\ map = AirportMap
  /\ crashed_planes = <<>>

NextGate ==
  Move(CmdTick + GateTicks) \/ Input \/ UpdateScore \/ Weather \/ Spawn
    \/ Collide \/ LoopEnd

SpecGate == InitGate /\ [][NextGate]_vars

\* ------------------------------------------------- A turnaround and a pushback
\* The ticks from the pass in which the first plane, in TaxiToGate(g), stands
\* on the cell of gate g: the arrival, the turnaround, and a pushback line the
\* operator may type at any point.
InitTurn ==
  /\ ~DuplicateGate
  /\ \E g \in DOMAIN NewGates :
       planes = << NewPlane(1, "AA117", TaxiToGateAct(g), NewGates[g].position),
                   Holding >>
  /\ gates = NewGates
  /\ engine_runs = <<0, 0>>
  /\ score = [takeoff |-> 0, crash |-> 0]
  /\ timer = CmdTick
  /\ weather \in Weathers
  /\ aoc = IF weather = "InclementWeather" THEN InclementAlert ELSE ""
  /\ queue = <<>>
  /\ pc = "move"
  /\ fault = "none"
  /\ result = NoCommand
  /\ map = AirportMap
  /\ crashed_planes = <<>>

NextTurn == NextGate \/ Enqueue(<<"p", "AA117">>, 1)

SpecTurn == InitTurn /\ [][NextTurn]_vars

\* ------------------------------------------------- One tick, planes meeting
\* One pass of the loop body from its start, taken from states the loop is in
\* when no two planes have met yet: tick CmdTick with the two first planes
\* leaving or gone, and the tick CmdTick after the second arrival, with three
\* planes near the crossing of taxiway 1 and the line of gate A.
Gone(id, name) ==
  [NewPlane(id, name, Act("Takeoff"), <<top_bottom, MapCols - 1>>)
     EXCEPT !.out_of_map = TRUE]

\* no two planes on the map share a cell
Apart(fleet) ==
  \A i, j \in 1 .. Len(fleet) :
    (i < j /\ ~fleet[i].out_of_map /\ ~fleet[j].out_of_map)
      => fleet[i].position # fleet[j].position

Departed(fleet) == Cardinality({i \in 1 .. Len(fleet) : fleet[i].out_of_map})

DepartureScenes ==
  { Scene(fleet, {}, <<0, 0>>, Departed(fleet), CmdTick) :
      fleet \in
        { << NewPlane(1, "AA117", Act("Takeoff"), <<top_bottom, MapCols - 2>>),
             Gone(2, "DL200") >>,
          << NewPlane(1, "AA117", Act("Takeoff"), <<top_bottom, MapCols - 1>>),
             Gone(2, "DL200") >>,
          << Gone(1, "AA117"),
             Arrival(Act("Takeoff"), <<top_bottom, MapCols - 2>>) >>,
          << Gone(1, "AA117"), Gone(2, "DL200") >>,
          << Gone(1, "AA117"), Holding >> } }

MeetingFirst ==
  { NewPlane(1, "AA117", Act("Pushback"), Cell(2, 1)),
    NewPlane(1, "AA117", Act("HoldPosition"), Cell(2, 2)),
    NewPlane(1, "AA117", Act("HoldPosition"), Cell(1, 4)) }
MeetingSecond ==
  { Arrival(Act("HoldPosition"), Cell(2, 2)),
    Arrival(TaxiToGateAct("A"), Cell(2, 3)),
    Arrival(Act("HoldPosition"), Cell(2, 3)),
    Gone(2, "DL200") }
MeetingThird ==
  { NewPlane(3, "UA303", TaxiToGateAct("A"), Cell(2, 3)),
    NewPlane(3, "UA303", Act("HoldPosition"), Cell(2, 2)),
    NewPlane(3, "UA303", Act("HoldPosition"), Cell(2, 3)),
    NewPlane(3, "UA303", Act("HoldPosition"), Cell(0, 4)) }

MeetingScenes ==
  { s \in { Scene(<<a, b, c>>, {}, <<0, 0, 0>>, Departed(<<a, b, c>>),
                  LANDING_INTERVAL + CmdTick)
              : a \in MeetingFirst, b \in MeetingSecond, c \in MeetingThird } :
      Apart(s.planes) }

\* tick CmdTick with the first plane on the ground and the arrival holding
GroundScenes ==
  { s \in { Scene(<<NewPlane(1, "AA117", g[1], Cell(g[2][1], g[2][2])), Holding>>,
                  {}, <<0, 0>>, 0, CmdTick)
              : g \in GroundStates } :
      Apart(s.planes) }

TickScenes == DepartureScenes \cup MeetingScenes \cup GroundScenes

TickLines ==
  { <<"hp", "UA303">>, <<"hp", "DL200">>, <<"t2g", "DL200", "A">>,
    <<"p", "AA117">>, <<"t", "AA117", "1">>, <<"t2g", "AA117", "A">> }

InitTick ==
  /\ ~DuplicateGate
  /\ \E s \in TickScenes :
       /\ planes = s.planes
       /\ gates = s.gates
       /\ engine_runs = s.engine_runs
       /\ score = s.score
       /\ timer = s.timer
  /\ weather \in Weathers
  /\ aoc = IF weather = "InclementWeather" THEN InclementAlert ELSE ""
  /\ queue \in {<<>>} \cup { <<command>> : command \in TickLines }
  /\ pc = "move"
  /\ fault = "none"
  /\ result = NoCommand
  /\ map = AirportMap
  /\ crashed_planes = <<>>

NextTick ==
  Move(LANDING_INTERVAL + CmdTick + 1) \/ Input \/ UpdateScore \/ Weather
    \/ Spawn \/ Collide

SpecTick == InitTick /\ [][NextTick]_vars

\* ------------------------------------------------- A taxi to a gate, no command
\* The ticks of a taxi to a gate: the first plane is in TaxiToGate(g) on a cell
\* of the runway or of a taxiway, the arrival has left, and the operator types
\* nothing.  The loop of main keeps running its body.
TaxiStarts ==
  { <<TaxiToGateAct("A"), c>> : c \in { <<0, 3>>, <<0, 4>>, <<2, 2>>, <<2, 3>>, <<2, 4>> } }
  \cup { <<TaxiToGateAct("B"), c>> :
           c \in { <<0, 2>>, <<0, 3>>, <<0, 4>>, <<1, 2>>, <<2, 2>> } }

InitTaxi ==
  /\ ~DuplicateGate
  /\ \E s \in TaxiStarts :
       planes = << NewPlane(1, "AA117", s[1], Cell(s[2][1], s[2][2])),
                   Gone(2, "DL200") >>
  /\ gates = NewGates
  /\ engine_runs = <<0, 0>>
  /\ score = [takeoff |-> 1, crash |-> 0]
  /\ timer = CmdTick
  /\ weather = "Clear"
  /\ aoc = ""
  /\ queue = <<>>
  /\ pc = "move"
  /\ fault = "none"
  /\ result = NoCommand
  /\ map = AirportMap
  /\ crashed_planes = <<>>

SpecTaxi == InitTaxi /\ [][NextGate]_vars /\ WF_vars(NextGate)

\* ------------------------------------------------------ The ticks of a meeting
\* The tick loop for CrashTicks ticks from the scenes with three planes near
\* the crossing: in some two planes meet in the first tick, in some in the
\* second, in some not at all.
CrashTicks == 2

InitCrash == InitTick /\ Len(planes) = 3

NextCrash ==
  Move(LANDING_INTERVAL + CmdTick + CrashTicks) \/ Input \/ UpdateScore \/ Weather
    \/ Spawn \/ Collide \/ LoopEnd

SpecCrash == InitCrash /\ [][NextCrash]_vars

\* ---------------------------------------------------------------- Properties
\* a step of the tick loop that takes a line from the channel and handles it
Handles == pc = "input" /\ queue # <<>> /\ queue' = Tail(queue)
Line == Head(queue)
Keyword == Line[1]
\* the index of the plane the line names, 0 when it names none
Addressee ==
  IF Len(Line) >= 2 THEN FindPlane(planes, to_lowercase(Line[2])) ELSE 0
Current == planes[Addressee].current_action

\* the grammar of the operator's manual
DocumentedKeywords == {"l", "t", "hp", "p", "tor", "hs", "t2g"}
RequestedKind(keyword) ==
  CASE keyword = "l"   -> "Land"
    [] keyword = "t"   -> "Takeoff"
    [] keyword = "hp"  -> "HoldPosition"
    [] keyword = "p"   -> "Pushback"
    [] keyword = "tor" -> "TaxiOntoRunway"
    [] keyword = "hs"  -> "HoldShort"
    [] keyword = "t2g" -> "TaxiToGate"
WellFormed(line) ==
  /\ Len(line) \in {2, 3}
  /\ line[1] \in DocumentedKeywords
  /\ Len(line) = IF line[1] \in {"hp", "p"} THEN 2 ELSE 3
  /\ line[1] \in {"l", "t", "tor", "hs"} => line[3] \in {"0", "1"}
  /\ line[1] = "t2g" => line[3] \in {"A", "B"}
\* the line gets as far as the match on the current action
ReachesStateCheck(line) ==
  /\ Len(line) \in {2, 3}
  /\ line[1] \in valid_commands
  /\ line[1] \notin {"hp", "p"} => Len(line) = 3
  /\ line[1] \notin {"hp", "p", "t2g"} => line[3] \in {"0", "1"}

AllowList(kind) ==
  CASE kind = "HoldPosition"   -> {"TaxiToGate", "HoldShort", "TaxiOntoRunway"}
    [] kind = "TaxiOntoRunway" -> {"HoldPosition", "HoldShort", "TaxiToGate", "Takeoff"}
    [] kind = "HoldShort"      -> {"HoldPosition", "TaxiOntoRunway", "Takeoff"}
    [] kind = "TaxiToGate"     -> {"HoldPosition"}
Commandable == {"HoldPosition", "TaxiOntoRunway", "HoldShort", "TaxiToGate"}

\* C1: a well-formed command that names an aircraft of the fleet in
\* HoldPosition, TaxiOntoRunway, HoldShort or TaxiToGate, handled while the
\* weather is not InclementWeather, is accepted exactly when the requested
\* action is in the allow-list of the aircraft's current action.
C1_AllowList ==
  [][ (/\ Handles
       /\ WellFormed(Line)
       /\ Addressee # 0
       /\ weather # "InclementWeather"
       /\ Current.kind \in Commandable)
      => (result'.status = "ok" <=> RequestedKind(Keyword) \in AllowList(Current.kind))
    ]_vars

\* C1 happens: a takeoff clearance was accepted in the rain
C1_Witness ==
  /\ result.status = "ok"
  /\ result.command = <<"t", "AA117", "1">>
  /\ weather = "Rain"
  /\ planes[1].current_action.kind = "Takeoff"

RefusingStates == {"InAir", "Land", "Takeoff", "Pushback"}
StateReason(kind) ==
  CASE kind = "InAir"    -> "Not a valid action when plane is in the air"
    [] kind = "Land"     -> "Not a valid action when in the process of landing"
    [] kind = "Takeoff"  -> "Not a valid action when in the process of takeoff"
    [] kind = "Pushback" -> "Not a valid action when in the process of pushback"

\* C2 as stated: every command that names an aircraft in InAir, Land, Takeoff
\* or Pushback is rejected with the reason of that state and the fleet is not
\* changed.
C2_AsStated ==
  [][ (Handles /\ Addressee # 0 /\ Current.kind \in RefusingStates)
      => (/\ result'.status = "err"
          /\ result'.reason = StateReason(Current.kind)
          /\ planes' = planes)
    ]_vars

\* C2: every command that names an aircraft in InAir, Land, Takeoff or Pushback
\* is rejected and the fleet is not changed; the reason is the one of that
\* state whenever the line has a known keyword, its destination token and,
\* for a runway keyword, a runway of the airport.
C2_Refused ==
  [][ (Handles /\ Addressee # 0 /\ Current.kind \in RefusingStates)
      => (/\ result'.status = "err"
          /\ planes' = planes
          /\ ReachesStateCheck(Line) => result'.reason = StateReason(Current.kind))
    ]_vars

\* C2 happens: "hp DL200" was rejected while DL200 is in the air
C2_Witness ==
  /\ result.status = "err"
  /\ result.command = <<"hp", "DL200">>
  /\ result.reason = "Not a valid action when plane is in the air"
  /\ Len(planes) = 2
  /\ planes[2].current_action.kind = "InAir"

WeatherReasons ==
  {InclementReason, "Cannot pushback during inclement weather"}
WeatherGated(current_action, keyword) ==
  \/ current_action.kind \in {"TaxiOntoRunway", "HoldShort"} /\ keyword = "t"
  \/ /\ current_action.kind = "AtGate"
     /\ current_action.sub = "Standby"
     /\ keyword = "p"

\* C3: a takeoff request from TaxiOntoRunway or HoldShort and a pushback
\* request from AtGate at Standby are rejected with a weather reason when the
\* weather at the handling of the line is InclementWeather and accepted when
\* it is Clear or Rain; the outcome of every other line is the same under
\* every weather.
C3_WeatherGate ==
  [][ Handles
      => IF /\ ReachesStateCheck(Line)
            /\ Addressee # 0
            /\ WeatherGated(Current, Keyword)
         THEN IF weather = "InclementWeather"
              THEN result'.status = "err" /\ result'.reason \in WeatherReasons
              ELSE result'.status = "ok"
         ELSE \A w \in Weathers :
                /\ parse_user_input(Line, planes, w).status = result'.status
                /\ parse_user_input(Line, planes, w).reason = result'.reason
    ]_vars

\* C3 happens: "t AA117 1" was rejected for the weather while AA117 holds short
C3_Witness ==
  /\ result.status = "err"
  /\ result.command = <<"t", "AA117", "1">>
  /\ result.reason = InclementReason
  /\ weather = "InclementWeather"
  /\ planes[1].current_action.kind = "HoldShort"

\* C4: a command that names an aircraft in AtGate(g, sub) is accepted only if
\* its keyword is the pushback keyword, sub is Standby and the weather is not
\* InclementWeather.
C4_AtGateOnlyPushback ==
  [][ (Handles /\ Addressee # 0 /\ Current.kind = "AtGate" /\ result'.status = "ok")
      => (Keyword = "p" /\ Current.sub = "Standby" /\ weather # "InclementWeather")
    ]_vars

\* C4 happens: a pushback was refused to an aircraft that is refuelling
C4_Witness ==
  /\ result.status = "err"
  /\ result.command = <<"p", "AA117">>
  /\ result.reason = "Wait for the plane to finish its turnaround process"
  /\ planes[1].current_action = AtGateAct("A", "Refuel")

\* C5: the handling of a rejected line leaves every aircraft of the fleet and
\* every gate as it was.
C5_RejectedLeavesFleet ==
  [][ (Handles /\ result'.status = "err") => (planes' = planes /\ gates' = gates) ]_vars

\* C5 happens: a landing on runway 0 was refused to an aircraft that holds
\* position with runway 1 assigned, and runway 1 is still assigned
C5_Witness ==
  /\ result.status = "err"
  /\ result.command = <<"l", "AA117", "0">>
  /\ result.reason = "Not a valid action when holding position"
  /\ planes[1].current_action.kind = "HoldPosition"
  /\ planes[1].runway.name = 1

\* C6: when a line is accepted and the re-run of the engine does not panic,
\* the fleet keeps its length, order and ids, every aircraft but the commanded
\* one is as before, the commanded one is the validator's copy (the aircraft
\* with the requested action) after one engine step, and the engine was
\* applied once more to the commanded aircraft and to no other.
C6_AcceptedReRun ==
  [][ (Handles /\ result'.status = "ok" /\ fault' = "none")
      => /\ Len(planes') = Len(planes)
         /\ result'.plane.id = planes[Addressee].id
         /\ result'.plane.position = planes[Addressee].position
         /\ Keyword \in DocumentedKeywords
              => result'.plane.current_action.kind = RequestedKind(Keyword)
         /\ gates' = StepPlane(result'.plane, gates).gates
         /\ \A i \in 1 .. Len(planes) :
              /\ planes'[i].id = planes[i].id
              /\ IF i = Addressee
                 THEN /\ planes'[i] = StepPlane(result'.plane, gates).plane
                      /\ engine_runs'[i] = engine_runs[i] + 1
                 ELSE /\ planes'[i] = planes[i]
                      /\ engine_runs'[i] = engine_runs[i]
    ]_vars

\* C6 happens: "tor AA117 1" was accepted and AA117 moved onto the runway in
\* the same tick, its second engine step of the tick
C6_Witness ==
  /\ result.status = "ok"
  /\ result.command = <<"tor", "AA117", "1">>
  /\ engine_runs = <<2, 1>>
  /\ planes[1].position # result.plane.position
  /\ planes[2] = Holding

\* a step of the tick loop that makes the engine's pass over the fleet
Advances == pc = "move" /\ pc' = "input"

\* C7 as stated: in every tick, once the engine has made its pass, it has been
\* applied exactly once to every aircraft that is on the map and never twice to
\* any aircraft.
C7_AsStated ==
  (pc \in {"input", "score", "weather", "spawn"} /\ fault = "none")
    => \A i \in 1 .. Len(planes) :
         /\ engine_runs[i] <= 1
         /\ ~planes[i].out_of_map => engine_runs[i] = 1

\* C7: the pass of the engine at the start of a tick applies it exactly once
\* to every aircraft that has not exited and not at all to an exited one; the
\* handling of an accepted line applies it once more to the aircraft of the
\* line and to no other; a rejected line and the other steps of the tick
\* apply it to none.
C7_OncePerPass ==
  [][ /\ Advances
         => \A i \in 1 .. Len(planes) :
              engine_runs'[i] =
                engine_runs[i] + IF planes[i].out_of_map THEN 0 ELSE 1
      /\ (Handles /\ fault' = "none")
         => \A i \in 1 .. Len(planes) :
              engine_runs'[i] =
                engine_runs[i]
                  + IF result'.status = "ok" /\ i = Addressee THEN 1 ELSE 0
      /\ pc \in {"score", "weather", "spawn", "collide"}
         => SubSeq(engine_runs', 1, Len(planes)) = engine_runs
    ]_vars

\* C7 happens: in one tick the engine ran once on AA117, not at all on DL200,
\* which has left the map, and twice on UA303, which was told to hold
C7_Witness ==
  /\ pc = "score"
  /\ result.status = "ok"
  /\ result.command = <<"hp", "UA303">>
  /\ Len(planes) = 3
  /\ planes[2].out_of_map
  /\ engine_runs = <<1, 0, 2>>

\* passes of the engine since the arrival at the gate, in the turnaround
Elapsed == timer - CmdTick - (IF pc = "move" THEN 1 ELSE 0)
\* the step of the turnaround n ticks after ShutdownProcedure
TurnaroundStep(n) ==
  AtGateActions[IF n + 1 < Len(AtGateActions) THEN n + 1 ELSE Len(AtGateActions)]

\* C8: an aircraft that is in AtGate(g, ShutdownProcedure) and gets no command
\* is, n ticks later, in the (n+1)-th step of the turnaround sequence, in
\* Standby exactly from the 15th tick on, and all the while at the position of
\* gate g with gate g in its action.
C8_Turnaround ==
  /\ [](/\ fault = "none"
        /\ planes[1].current_action.kind = "AtGate"
        /\ planes[1].current_action.sub = TurnaroundStep(Elapsed)
        /\ planes[1].current_action.sub = "Standby" <=> Elapsed >= 15
        /\ planes[1].current_action.gate \in DOMAIN NewGates
        /\ planes[1].position = NewGates[planes[1].current_action.gate].position)
  /\ [][ /\ planes'[1].position = planes[1].position
         /\ planes'[1].current_action.gate = planes[1].current_action.gate ]_vars

\* C8 happens: the 15th pass after the arrival has just put AA117 on standby
C8_Witness ==
  /\ pc = "input"
  /\ timer = CmdTick + 15
  /\ planes[1].current_action.kind = "AtGate"
  /\ planes[1].current_action.sub = "Standby"
  /\ queue = <<>>
  /\ result = NoCommand

\* the step of the tick loop that looks for collisions
Detects == pc = "collide" /\ pc' = "loop"
\* the planes at indexes i and j are two aircraft on the map on one cell
Collides(i, j) ==
  /\ i # j
  /\ planes[i].position = planes[j].position
  /\ planes[i].id # planes[j].id
  /\ ~planes[i].out_of_map
  /\ ~planes[j].out_of_map
SomeCollision == \E i, j \in 1 .. Len(planes) : Collides(i, j)

\* C9: when two aircraft with different ids that have not exited are on one
\* cell the detector adds exactly one to the crash counter and names two
\* aircraft that are on one cell and have not exited, however many coincide;
\* otherwise it names none and leaves the counter.
C9_CrashOnce ==
  [][ Detects
      => IF SomeCollision
         THEN /\ score'.crash = score.crash + 1
              /\ \E i, j \in 1 .. Len(planes) :
                   /\ Collides(i, j)
                   /\ crashed_planes' = <<planes[i].id, planes[j].id>>
         ELSE /\ score'.crash = score.crash
              /\ crashed_planes' = <<>>
    ]_vars

\* C9 happens: three aircraft met on one cell and the counter went to one
C9_Witness ==
  /\ pc = "loop"
  /\ Len(planes) = 3
  /\ planes[1].position = planes[2].position
  /\ planes[2].position = planes[3].position
  /\ \A i \in 1 .. 3 : ~planes[i].out_of_map
  /\ score.crash = 1
  /\ crashed_planes # <<>>

\* the first colliding pair in scan order
FirstOfPair ==
  CHOOSE i \in 1 .. Len(planes) :
    /\ \E j \in i + 1 .. Len(planes) : Collides(i, j)
    /\ \A k \in 1 .. i - 1 : ~\E j \in k + 1 .. Len(planes) : Collides(k, j)
SecondOfPair ==
  CHOOSE j \in FirstOfPair + 1 .. Len(planes) :
    /\ Collides(FirstOfPair, j)
    /\ \A k \in FirstOfPair + 1 .. j - 1 : ~Collides(FirstOfPair, k)

\* C10 as stated: when aircraft collide the detector returns the first
\* colliding pair in scan order: the smallest index i, then the smallest j > i.
C10_FirstPair ==
  [][ (Detects /\ SomeCollision)
      => crashed_planes' = <<planes[FirstOfPair].id, planes[SecondOfPair].id>>
    ]_vars

\* C11: an aircraft that has not exited, with action TaxiToGate(g) and standing
\* on the cell Gate(g), is after one engine step (in the pass, or in the re-run
\* that follows the grant of TaxiToGate(g)) in AtGate(g, ShutdownProcedure) on
\* the same cell, and gate g is marked occupied.
C11_ArrivesAtGate ==
  [][ /\ Advances
         => \A i \in 1 .. Len(planes) :
              (/\ ~planes[i].out_of_map
               /\ planes[i].current_action.kind = "TaxiToGate"
               /\ check_if_gate(MapAt(planes[i].position),
                                planes[i].current_action.gate))
              => /\ planes'[i].current_action =
                      AtGateAct(planes[i].current_action.gate, "ShutdownProcedure")
                 /\ planes'[i].position = planes[i].position
                 /\ gates'[planes[i].current_action.gate].is_occupied
      /\ (/\ Handles
          /\ result'.status = "ok"
          /\ result'.plane.current_action.kind = "TaxiToGate"
          /\ check_if_gate(MapAt(result'.plane.position),
                           result'.plane.current_action.gate))
         => /\ fault' = "none"
            /\ planes'[Addressee].current_action =
                 AtGateAct(result'.plane.current_action.gate, "ShutdownProcedure")
            /\ planes'[Addressee].position = planes[Addressee].position
            /\ gates'[result'.plane.current_action.gate].is_occupied
    ]_vars

\* C11 happens: the pass of this tick found AA117 taxiing to gate B on the cell
\* of gate B, which was free, and left it there at the gate
C11_Witness ==
  /\ pc = "input"
  /\ engine_runs[1] = 1
  /\ planes[1].current_action = AtGateAct("B", "ShutdownProcedure")
  /\ planes[1].position = NewGates["B"].position
  /\ gates["B"].is_occupied
  /\ ~gates["A"].is_occupied

\* C12: in a pass of the engine an aircraft in InAir moves exactly one cell
\* along the side of its assigned runway and becomes Land exactly when the cell
\* it arrives on is Runway(assigned name, side); the aircraft that arrives at
\* the edge of the map in line with its runway does become Land.
C12_ApproachLands ==
  /\ [][ Advances
         => \A i \in 1 .. Len(planes) :
              (planes[i].current_action.kind = "InAir" /\ ~planes[i].out_of_map)
              => /\ planes'[i].position =
                      go(planes[i].runway.side, planes[i].position)
                 /\ planes'[i].current_action =
                      IF MapAt(planes'[i].position)
                           = RunwayPt(planes[i].runway.name, planes[i].runway.side)
                      THEN Act("Land") ELSE Act("InAir")
       ]_vars
  /\ (Len(planes) >= 2 /\ planes[2].current_action.kind = "InAir")
       ~> (Len(planes) >= 2 /\ planes[2].current_action.kind = "Land")

\* C12 happens: the arrival has flown over the margin and is on the first cell
\* of runway 1, landing
C12_Witness ==
  /\ pc = "input"
  /\ Len(planes) = 2
  /\ planes[2].current_action.kind = "Land"
  /\ planes[2].position = Cell(0, 1)
  /\ timer = left_right + 1

TwoCellsOneGate ==
  \E q \in GateCellsOf(map), o \in GateCellsOf(map) :
    q # o /\ map[q[1]][q[2]].label = map[o[1]][o[2]].label

\* C14: the construction of the gate registry ends in the panic "Duplicate
\* gate number" when the grid has two Gate cells with one number; otherwise the
\* registry has exactly one record per Gate cell, filed under the number of
\* the cell, with the position of the cell and not occupied.
C14_GateRegistry ==
  [][ (pc = "construct" /\ (pc' # pc \/ fault' # fault))
      => IF TwoCellsOneGate
         THEN fault' = "Duplicate gate number" /\ gates' = gates
         ELSE /\ fault' = "none"
              /\ Cardinality(DOMAIN gates') = Cardinality(GateCellsOf(map))
              /\ \A q \in GateCellsOf(map) :
                   /\ map[q[1]][q[2]].label \in DOMAIN gates'
                   /\ gates'[map[q[1]][q[2]].label] =
                        [number |-> map[q[1]][q[2]].label,
                         position |-> <<q[1] - 1, q[2] - 1>>,
                         is_occupied |-> FALSE]
    ]_vars

\* C14 happens: a registry of two gates was built from a grid with gate B in
\* the first row and gate A under it
C14_Witness ==
  /\ pc = "constructed"
  /\ fault = "none"
  /\ DOMAIN gates = {"A", "B"}
  /\ gates["B"].position = <<0, 2>>
  /\ gates["A"].position = <<1, 2>>

\* the aircraft the fleets of the comparison are filled with
Bystanders ==
  MeetingFirst \cup MeetingSecond \cup MeetingThird \cup {Holding, Parked("A")}
\* fleets that hold the aircraft a, each with the index of a in it
FleetsAround(a) ==
  { <<(<<a>>), 1>> }
    \cup { <<(<<x, a>>), 2>> : x \in Bystanders }
    \cup { <<(<<a, x>>), 1>> : x \in Bystanders }

\* C15: a pass of the engine leaves each aircraft of the fleet as a pass over
\* any other fleet that holds the same aircraft leaves it, alone, behind or
\* ahead of another aircraft that stands anywhere, whichever gates are marked
\* occupied.
C15_NoCoupling ==
  [][ Advances
      => \A i \in 1 .. Len(planes) :
           \A around \in FleetsAround(planes[i]) :
             \A taken \in SUBSET DOMAIN NewGates :
               \A r \in {update_aircraft_position(around[1], Occupied(taken))} :
                 r.fault = "none" => r.planes[around[2]] = planes'[i]
    ]_vars

\* C15 happens: the pass has moved UA303, taxiing to gate A, onto the cell on
\* which DL200 holds
C15_Witness ==
  /\ pc = "input"
  /\ Len(planes) = 3
  /\ engine_runs = <<1, 1, 1>>
  /\ planes[3].current_action.kind = "TaxiToGate"
  /\ planes[2].current_action.kind = "HoldPosition"
  /\ planes[3].position = planes[2].position

\* C16 as stated: a line with keyword hp or p is accepted only with no
\* destination token, a line with keyword l, t, tor, hs or t2g only with
\* exactly one, and a line of any other number of tokens is rejected.
C16_ArityRule ==
  [][ Handles
      => /\ result'.status = "ok"
              => /\ Keyword \in {"hp", "p"} => Len(Line) = 2
                 /\ Keyword \in {"l", "t", "tor", "hs", "t2g"} => Len(Line) = 3
         /\ Len(Line) \notin {2, 3} => result'.status = "err"
    ]_vars

\* C17 as stated: a line whose keyword is not one of hp, p, l, t, tor, hs and
\* t2g is rejected and changes no aircraft.
C17_UnknownKeyword ==
  [][ (Handles /\ Keyword \notin DocumentedKeywords)
      => (result'.status = "err" /\ planes' = planes)
    ]_vars

RunwayKeywords == {"tor", "hs", "l", "t"}

\* C18: for a line of three tokens that names an aircraft of the fleet: with
\* keyword tor, hs, l or t and a destination that is no runway of the registry
\* it is rejected with "Runway not found"; when a line with one of these
\* keywords is accepted the aircraft's runway is the registry record of the
\* runway named; a line with keyword hp, p or t2g leaves the aircraft's runway
\* as it was; and the outcome of a t2g line does not depend on its destination.
C18_Destination ==
  [][ (Handles /\ Addressee # 0)
      => /\ (Keyword \in RunwayKeywords /\ Len(Line) = 3 /\ Line[3] \notin DOMAIN runways)
              => result'.status = "err" /\ result'.reason = "Runway not found"
         /\ (Keyword \in RunwayKeywords /\ result'.status = "ok")
              => /\ Line[3] \in DOMAIN runways
                 /\ result'.plane.runway = runways[Line[3]]
                 /\ fault' = "none" => planes'[Addressee].runway = runways[Line[3]]
         /\ Keyword \in {"hp", "p", "t2g"}
              => /\ planes'[Addressee].runway = planes[Addressee].runway
                 /\ result'.status = "ok"
                      => result'.plane.runway = planes[Addressee].runway
         /\ (Keyword = "t2g" /\ Len(Line) = 3)
              => \A d \in CmdDestinations :
                   parse_user_input(<<"t2g", Line[2], d>>, planes, weather).status
                     = result'.status
    ]_vars

\* C18 happens: "tor AA117 0" was accepted and AA117, spawned with runway 1,
\* has runway 0
C18_Witness ==
  /\ result.status = "ok"
  /\ result.command = <<"tor", "AA117", "0">>
  /\ planes[1].runway = runways["0"]
  /\ planes[1].runway # runways["1"]
  /\ fault = "none"

\* C19: handling an operator's line never ends in a fatal fault: the line is
\* either rejected, or accepted and the engine's re-run on the commanded
\* aircraft in the same tick returns.
C19_NoFatalFault ==
  [][ Handles => fault' = "none" ]_vars

\* the cells on which a Takeoff aircraft is taken off the map: rows 0 and 1,
\* the last row, columns 0 and 1, the last column
NearEdge(position) ==
  \/ position[1] <= 1
  \/ position[1] >= MapRows - 1
  \/ position[2] <= 1
  \/ position[2] >= MapCols - 1

\* the aircraft is one cell further along the side of its runway
OneCellOn(before, after) ==
  /\ after.position = go(before.runway.side, before.position)
  /\ after.position # before.position
  /\ after.position \in AllPositions
  /\ after.out_of_map = before.out_of_map

\* the aircraft is marked exited where it stands
ExitsInPlace(before, after) ==
  after.out_of_map /\ after.position = before.position

\* a line was accepted that grants Takeoff, so the engine is run on the aircraft
\* in Takeoff
TakeoffGranted ==
  Handles /\ result'.status = "ok" /\ result'.plane.current_action.kind = "Takeoff"

TakeoffOnGrid ==
  \A i \in 1 .. Len(planes) :
    planes[i].current_action.kind = "Takeoff" => planes[i].position \in AllPositions

C21_ExitedAbsorbing ==
  /\ [](\A i \in 1 .. Len(planes) :
          planes[i].out_of_map => planes[i].current_action.kind = "Takeoff")
  /\ [][ /\ Len(planes') >= Len(planes)
         /\ \A i \in 1 .. Len(planes) :
              /\ planes'[i].id = planes[i].id
              /\ planes'[i].name = planes[i].name
              /\ planes[i].out_of_map
                   => /\ planes'[i] = planes[i]
                      /\ engine_runs'[i] = engine_runs[i]
              /\ (~planes[i].out_of_map /\ planes'[i].out_of_map)
                   => /\ planes[i].current_action.kind = "Takeoff"
                      /\ planes'[i].position = planes[i].position
         /\ (Handles /\ Addressee # 0 /\ planes[Addressee].out_of_map)
              => /\ result'.status = "err"
                 /\ result'.reason = "Not a valid action when in the process of takeoff"
                 /\ planes' = planes
       ]_vars

\* C21 happens: in this tick the pass advanced AA117 and skipped the exited
\* DL200, and the line "t2g DL200 A" was rejected
C21_Witness ==
  /\ pc = "score"
  /\ Len(planes) = 2
  /\ planes[2] = Gone(2, "DL200")
  /\ engine_runs = <<1, 0>>
  /\ result.status = "err"
  /\ result.command = <<"t2g", "DL200", "A">>

\* the steps of a tick, each named by the call of update_game_state it makes
EngineStep == pc = "move" /\ pc' # pc
CommandStep == pc = "input" /\ pc' # pc
ScoreStep == pc = "score" /\ pc' # pc
WeatherStep == pc = "weather" /\ pc' # pc
SpawnStep == pc = "spawn" /\ pc' # pc
DetectStep == pc = "collide" /\ pc' # pc
Exited(fleet) == {i \in 1 .. Len(fleet) : fleet[i].out_of_map}

Produces == queue' # queue /\ pc' = pc

\* C23: the command step of a tick takes the oldest line from the channel when
\* one waits and nothing otherwise, and no other step of the tick takes any,
\* so a tick takes at most one line and exactly one when several wait; the
\* command step is never blocked: with an empty channel it goes on at once, all
\* aircraft on the map advanced once and none changed; the producer can put a
\* line into the channel at every point of the tick.
C23_OneLinePerTick ==
  /\ []((Running /\ pc = "input") => ENABLED Input)
  /\ []((Running /\ Len(queue) < QueueDepth)
          => ENABLED (\E command \in QueueLines : Enqueue(command, QueueDepth)))
  /\ [][ /\ CommandStep
            => /\ queue # <<>> => Len(queue') = Len(queue) - 1
               /\ queue = <<>>
                    => /\ queue' = <<>>
                       /\ planes' = planes
                       /\ pc' = "score"
                       /\ \A i \in 1 .. Len(planes) :
                            /\ engine_runs[i] <= 1
                            /\ ~planes[i].out_of_map => engine_runs[i] = 1
         /\ (pc' # pc /\ pc # "input") => queue' = queue
         /\ Produces => Len(queue') = Len(queue) + 1
         /\ Len(queue') < Len(queue) => CommandStep \/ (pc = "input" /\ fault' # "none")
       ]_vars

\* C23 happens: two lines waited, the tick took the first and left the second
C23_Witness ==
  /\ pc = "score"
  /\ result.command = <<"p", "AA117">>
  /\ queue = << <<"hp", "AA117">> >>
  /\ \A i \in 1 .. Len(planes) : engine_runs[i] >= 1

\* C24: a line the producer sends goes behind all the lines that wait, which
\* keep their order, and the line a command step handles is the one that has
\* waited longest; as a tick handles one line, of two lines the one sent
\* earlier is handled in an earlier tick.
C24_Fifo ==
  [][ /\ Produces
         => \E command \in QueueLines : queue' = Append(queue, command)
      /\ (pc = "input" /\ Len(queue') < Len(queue))
         => /\ result'.command = Head(queue)
            /\ queue' = Tail(queue)
            /\ \A k \in 1 .. Len(queue') : queue'[k] = queue[k + 1]
      /\ queue' # queue => Produces \/ (pc = "input" /\ Len(queue') < Len(queue))
    ]_vars

\* C24 happens: "p AA117" and then "hp AA117" were sent; the pushback was
\* granted in an earlier tick, so the hold is refused to an aircraft in
\* pushback
C24_Witness ==
  /\ pc = "score"
  /\ timer >= 1
  /\ result.command = <<"hp", "AA117">>
  /\ result.status = "err"
  /\ result.reason = "Not a valid action when in the process of pushback"
  /\ planes[1].current_action.kind = "Pushback"

\* C25: the loop of main ends at the end of the first tick whose collision scan
\* reports a collision: from the report on no aircraft is advanced, no line is
\* taken and no further scan is made, so the crash counter never exceeds 1;
\* at the end of a tick without a collision the loop goes on with the next
\* tick, and it is never ended with the crash counter at 0.
C25_CrashEndsRun ==
  /\ [](score.crash <= 1)
  /\ [](pc = "done" => (score.crash = 1 /\ crashed_planes # <<>>))
  /\ []((score.crash > 0) => pc \in {"loop", "done"})
  /\ [][ /\ (pc = "loop" /\ pc' # pc)
            => /\ pc' = IF score.crash > 0 THEN "done" ELSE "move"
               /\ timer' = timer + 1
         /\ score.crash > 0
            => UNCHANGED <<planes, gates, queue, score, weather, crashed_planes>>
         /\ pc = "done" => UNCHANGED vars
         /\ Detects
            => score'.crash = score.crash + IF SomeCollision THEN 1 ELSE 0
       ]_vars

\* C25 happens: the run has ended in the second tick, whose scan reported the
\* collision
C25_Witness ==
  /\ pc = "done"
  /\ score.crash = 1
  /\ crashed_planes # <<>>
  /\ timer = LANDING_INTERVAL + CmdTick + CrashTicks

\* the first direction in the order North, South, East, West in which the
\* neighbour of the cell is a Taxiway, StayPut when there is none
FirstTaxiway(position) ==
  IF \E k \in 1 .. 4 : MapAt(go(SearchOrder[k], position)).kind = "Taxiway"
  THEN SearchOrder[CHOOSE k \in 1 .. 4 :
         /\ MapAt(go(SearchOrder[k], position)).kind = "Taxiway"
         /\ \A j \in 1 .. k - 1 : MapAt(go(SearchOrder[j], position)).kind # "Taxiway"]
  ELSE "StayPut"
\* the neighbouring taxiway cell and the cell one step past it along the
\* taxiway's own direction
ExitCell(position) == go(FirstTaxiway(position), position)
PastExit(position) == go(MapAt(ExitCell(position)).dir, ExitCell(position))
TakesExit(position) ==
  FirstTaxiway(position) # "StayPut" /\ MapAt(PastExit(position)).kind # "Runway"
\* the engine's pass moves the landing aircraft, the only one of the fleet
Landing == Advances /\ planes[1].current_action.kind = "Land"

\* C26 as stated: a landing aircraft that takes no exit moves one cell along
\* the side of its runway and becomes HoldPosition exactly when the cell it
\* arrives on is Empty; otherwise it stays in Land.
C26_AsStated ==
  [][ (Landing /\ ~TakesExit(planes[1].position))
      => /\ planes'[1].position = go(planes[1].runway.side, planes[1].position)
         /\ planes'[1].current_action.kind =
              IF MapAt(planes'[1].position) = EmptyPt THEN "HoldPosition" ELSE "Land"
    ]_vars

\* C26: a landing aircraft that takes no exit moves one cell along the side
\* of its runway and becomes HoldPosition exactly when the cell after the one
\* it arrives on, along the same side, is Empty; otherwise it stays in Land.
C26_EndOfRunway ==
  [][ (Landing /\ ~TakesExit(planes[1].position))
      => /\ planes'[1].position = go(planes[1].runway.side, planes[1].position)
         /\ planes'[1].current_action.kind =
              IF MapAt(go(planes[1].runway.side, planes'[1].position)) = EmptyPt
              THEN "HoldPosition" ELSE "Land"
    ]_vars

\* C26 happens: the aircraft landing east on runway 1 has arrived on the last
\* cell of the runway, past the taxiway that crosses it, and holds there
C26_Witness ==
  /\ pc = "input"
  /\ engine_runs = <<1>>
  /\ planes[1].runway.side = "East"
  /\ planes[1].position = Cell(0, 4)
  /\ MapAt(planes[1].position).kind = "Runway"
  /\ MapAt(go("East", planes[1].position)) = EmptyPt
  /\ planes[1].current_action.kind = "HoldPosition"

\* C27: a landing aircraft with a Taxiway cell next to it, the first found in
\* the order North, South, East, West, moves onto that cell and becomes
\* HoldPosition when the cell one step past it along the taxiway's own
\* direction is not a Runway; when that cell is a Runway it moves one cell
\* along the side of its runway instead, as it does with no taxiway next to it.
C27_ExitRule ==
  [][ Landing
      => IF TakesExit(planes[1].position)
         THEN /\ planes'[1].position = ExitCell(planes[1].position)
              /\ MapAt(planes'[1].position).kind = "Taxiway"
              /\ planes'[1].current_action.kind = "HoldPosition"
         ELSE planes'[1].position = go(planes[1].runway.side, planes[1].position)
    ]_vars

\* C27 happens: the landing aircraft has left the runway onto a taxiway cell
\* that leads to no runway and holds there
C27_Witness ==
  /\ pc = "input"
  /\ engine_runs = <<1>>
  /\ MapAt(planes[1].position).kind = "Taxiway"
  /\ planes[1].current_action.kind = "HoldPosition"
  /\ planes[1].position # go(planes[1].runway.side, Cell(0, 3))

\* C28: an aircraft whose action is AtGate(g, _) stands on the cell Gate(g),
\* and gate g is marked occupied only by an aircraft taxiing to g on that cell.
C28_AtGateOnItsGate ==
  \A i \in 1 .. Len(planes) :
    planes[i].current_action.kind = "AtGate"
      => check_if_gate(MapAt(planes[i].position), planes[i].current_action.gate)

\* the directions in which the cell next to the gate is a line cell of gate g
OwnLines(g) ==
  { d \in {"North", "South", "East", "West"} :
      /\ fetch_mappoint_in(map, d, PushGate).kind = "GateTaxiLine"
      /\ fetch_mappoint_in(map, d, PushGate).label = g }
Pushes == pc = "push" /\ (pc' # pc \/ fault' # fault)

\* C29: a Pushback aircraft on the cell Gate(g) steps onto a cell next to it
\* that is a line cell of gate g, and when no cell next to the gate is a line
\* cell of gate g the step is the fault "Plane is not standing near a gate taxi
\* line" and the aircraft does not move.
C29_OwnGateLine ==
  [][ Pushes
      => IF OwnLines("A") # {}
         THEN /\ fault' = "none"
              /\ \E d \in OwnLines("A") : planes'[1].position = go(d, PushGate)
         ELSE /\ fault' = "Plane is not standing near a gate taxi line"
              /\ planes' = planes
    ]_vars

InPushback(i) == i <= Len(planes) /\ planes[i].current_action.kind = "Pushback"
\* a line is accepted that grants Pushback
PushbackGranted ==
  Handles /\ result'.status = "ok" /\ result'.plane.current_action.kind = "Pushback"

\* C30: the step that grants Pushback to an aircraft at Gate(g) puts it on the
\* line cell of gate g next to the gate; every pass of the engine moves an
\* aircraft in Pushback one cell against the direction of the line cell it is
\* on, never onto a Gate cell, and makes it HoldPosition exactly when the cell
\* it arrives on is a Taxiway; no other step moves it; and an aircraft in
\* Pushback does become HoldPosition on a Taxiway cell.
C30_PushbackEnds ==
  /\ [](\A i \in 1 .. Len(planes) :
          InPushback(i) => MapAt(planes[i].position).kind = "GateTaxiLine")
  /\ [][ /\ PushbackGranted
            => /\ fault' = "none"
               /\ Current.kind = "AtGate"
               /\ planes'[Addressee].current_action.kind = "Pushback"
               /\ MapAt(planes'[Addressee].position)
                    = GateTaxiLinePt(Current.gate, MapAt(planes'[Addressee].position).dir)
               /\ \E d \in {"North", "South", "East", "West"} :
                    planes'[Addressee].position = go(d, planes[Addressee].position)
         /\ \A i \in 1 .. Len(planes) :
              InPushback(i)
              => IF Advances
                 THEN /\ planes'[i].position =
                           go(get_opposite_dir(MapAt(planes[i].position).dir),
                              planes[i].position)
                      /\ planes'[i].position # planes[i].position
                      /\ MapAt(planes'[i].position).kind \in {"GateTaxiLine", "Taxiway"}
                      /\ planes'[i].current_action.kind =
                           IF MapAt(planes'[i].position).kind = "Taxiway"
                           THEN "HoldPosition" ELSE "Pushback"
                 ELSE planes'[i] = planes[i]
       ]_vars
  /\ InPushback(1)
       ~> (planes[1].current_action.kind = "HoldPosition"
           /\ MapAt(planes[1].position).kind = "Taxiway")

\* C30 happens: the aircraft that was parked at gate B has been pushed back
\* along the two cells of the line and holds on the taxiway at its end
C30_Witness ==
  /\ pc = "input"
  /\ engine_runs[1] = 1
  /\ planes[1].current_action.kind = "HoldPosition"
  /\ planes[1].position = Cell(1, 4)
  /\ MapAt(Cell(1, 4)).kind = "Taxiway"
  /\ MapAt(Cell(1, 5)) = GateTaxiLinePt("B", "East")
  /\ gates["B"].position = Cell(1, 7)

\* a line is accepted that grants HoldShort: the engine is applied to the
\* commanded aircraft in HoldShort on the cell it stands on
HoldShortGranted ==
  Handles /\ result'.status = "ok" /\ result'.plane.current_action.kind = "HoldShort"
\* the cell one step along the direction of the cell at position
Forward(position) == go(MapAt(position).dir, position)
\* the HoldShort rule on a taxiway cell: stop short of a runway, else step on
StopsShortOrSteps(before, after) ==
  IF MapAt(Forward(before.position)).kind = "Runway"
  THEN /\ after.position = before.position
       /\ after.current_action.kind = "HoldPosition"
  ELSE /\ after.position = Forward(before.position)
       /\ after.position # before.position
       /\ after.current_action.kind = "HoldShort"

TaxiesOntoRunway(i) ==
  planes[i].current_action.kind = "TaxiOntoRunway" /\ ~planes[i].out_of_map

\* C32: a pass of the engine moves an aircraft in TaxiOntoRunway(target) that
\* stands on a Taxiway cell one cell along the taxiway's direction; leaves one
\* that stands on a Runway cell with the stored id 0 in place, in
\* TaxiOntoRunway carrying the id of the target runway it was sent to; and
\* moves one that stands on a Runway cell with another id one cell along the
\* direction of that cell.
C32_OntoRunwayStep ==
  [][ \A i \in 1 .. Len(planes) :
        (Advances /\ TaxiesOntoRunway(i))
        => LET point == MapAt(planes[i].position)
               target == planes[i].current_action.num
           IN /\ point.kind \in {"Taxiway", "Runway"}
              /\ IF point.kind = "Runway" /\ point.num = 0
                 THEN /\ planes'[i].position = planes[i].position
                      /\ planes'[i].current_action = TaxiOntoRunwayAct(target)
                 ELSE /\ planes'[i].position = Forward(planes[i].position)
                      /\ planes'[i].current_action = planes[i].current_action
    ]_vars

\* C33: the only change ever made to a gate record is that its occupied flag
\* goes from false to true, and it is made by an application of the engine
\* that turns an aircraft standing on a Gate cell into AtGate(g,
\* ShutdownProcedure); no other step of the tick (pushback, the handling of a
\* line, the score, the weather, a spawn, the collision scan) changes any gate
\* record, so a gate that is marked occupied stays marked.
C33_GateWrittenOnArrival ==
  [][ \A g \in DOMAIN gates :
        /\ gates[g].is_occupied => gates'[g].is_occupied
        /\ gates'[g] # gates[g]
             => /\ gates'[g] = [gates[g] EXCEPT !.is_occupied = TRUE]
                /\ pc \in {"move", "input"}
                /\ \E i \in 1 .. Len(planes) :
                     /\ planes[i].current_action.kind # "AtGate"
                     /\ MapAt(planes[i].position).kind = "Gate"
                     /\ planes'[i].current_action = AtGateAct(g, "ShutdownProcedure")
                     /\ planes'[i].position = planes[i].position
    ]_vars

\* C33 happens: AA117 arrived at a gate, was pushed back and holds on a
\* taxiway; no aircraft is at the gate and the gate is still marked occupied
C33_Witness ==
  /\ planes[1].current_action.kind = "HoldPosition"
  /\ MapAt(planes[1].position).kind = "Taxiway"
  /\ \E g \in DOMAIN gates :
       /\ gates[g].is_occupied
       /\ \A i \in 1 .. Len(planes) : planes[i].position # gates[g].position

\* a pass of the engine is made, and returns or panics
Applied == pc = "move" /\ (pc' = "input" \/ fault' # "none")
\* the kinds of cell the rule of an action has a case for
Expected(kind) ==
  CASE kind = "Land"           -> {"Runway"}
    [] kind = "Takeoff"        -> {"Runway", "Empty"}
    [] kind = "TaxiOntoRunway" -> {"Taxiway", "Runway"}
    [] kind = "HoldShort"      -> {"Taxiway"}
    [] kind = "Pushback"       -> {"GateTaxiLine", "Gate"}
    [] kind = "TaxiToGate"     -> {"Taxiway", "GateTaxiLine", "Gate", "Runway"}
KindFault(kind) ==
  CASE kind = "Takeoff"        -> "Plane is not standing on a runway"
    [] kind = "TaxiOntoRunway" -> "Plane is not standing on a taxiway or runway"
    [] kind = "HoldShort"      -> "Plane is not standing on a taxiway"
    [] kind = "Pushback"       -> "Plane is not standing at a gate or gate taxi line"
    [] kind = "TaxiToGate"     -> "Plane is not standing on a taxiway or correct gate"
\* the plane stands on a cell of a kind its action has no case for
Misplaced(plane) ==
  /\ plane.current_action.kind \in
       {"Land", "Takeoff", "TaxiOntoRunway", "HoldShort", "Pushback", "TaxiToGate"}
  /\ MapAt(plane.position).kind \notin Expected(plane.current_action.kind)
\* the search for the gate line that the TaxiToGate rule makes first
LineNearby(plane) ==
  check_for_gate_taxi_line_all_directions(plane.position, plane.current_action.gate, FALSE)
\* the rule of the plane's action gets as far as its match on the kind of cell
Consults(plane) ==
  CASE plane.current_action.kind \in {"InAir", "Land"} -> FALSE
    [] plane.current_action.kind = "Takeoff" -> ~NearEdge(plane.position)
    [] plane.current_action.kind = "TaxiToGate" ->
         ~LineNearby(plane).fault /\ ~LineNearby(plane).found
    [] OTHER -> TRUE

Destination == planes[1].current_action.gate
TaxiesToGate == planes[1].current_action.kind = "TaxiToGate"

\* C35: an aircraft in TaxiToGate(g) on the runway or a taxiway of the
\* airport, with no command, becomes AtGate(g, ShutdownProcedure) standing on
\* the cell of gate g, which is then marked; on its way a pass of the engine
\* that finds a chain of line cells ending at gate g next to the aircraft moves
\* it onto that chain, and the aircraft is never on a line cell or on the gate
\* cell of another gate.
C35_ReachesGate ==
  /\ TaxiesToGate
       ~> (/\ planes[1].current_action.kind = "AtGate"
           /\ planes[1].position = gates[Destination].position
           /\ gates[Destination].is_occupied)
  /\ [](TaxiesToGate
         => /\ MapAt(planes[1].position).kind \in {"GateTaxiLine", "Gate"}
                 => MapAt(planes[1].position).label = Destination)
  /\ [][ (Advances /\ TaxiesToGate)
          => /\ LineNearby(planes[1]).found
                  => /\ planes'[1].position
                          = go(LineNearby(planes[1]).dir, planes[1].position)
                     /\ MapAt(planes'[1].position).kind \in {"GateTaxiLine", "Gate"}
                     /\ MapAt(planes'[1].position).label = Destination
             /\ planes'[1].current_action # planes[1].current_action
                  => /\ planes'[1].current_action
                          = AtGateAct(Destination, "ShutdownProcedure")
                     /\ planes'[1].position = planes[1].position
                     /\ MapAt(planes[1].position) = GatePt(Destination)
      ]_vars

\* C35 happens: AA117 went round from taxiway 1 over the runway and taxiway 2
\* and has arrived at gate B
C35_Witness ==
  /\ planes[1].current_action = AtGateAct("B", "ShutdownProcedure")
  /\ planes[1].position = Cell(1, 7)
  /\ gates["B"].is_occupied
  /\ ~gates["A"].is_occupied
  /\ timer >= CmdTick + 8
  /\ fault = "none"

\* C36: the weather condition is always Clear, Rain or InclementWeather and
\* the alert of the Airport Operations Center is set exactly while the
\* condition is InclementWeather; the condition and the alert change only in
\* the weather refresh; InclementWeather is entered only from Clear, which sets
\* the alert, and left only to Clear, which clears it, so Rain and
\* InclementWeather never follow one another directly.
C36_AlertIffInclement ==
  /\ [](weather \in Weathers)
  /\ []((aoc # "") <=> (weather = "InclementWeather"))
  /\ [][ /\ (weather' # weather \/ aoc' # aoc) => WeatherStep
         /\ (weather' = "InclementWeather" /\ weather # "InclementWeather")
              => weather = "Clear" /\ aoc = "" /\ aoc' = InclementAlert
         /\ (weather = "InclementWeather" /\ weather' # "InclementWeather")
              => weather' = "Clear" /\ aoc = InclementAlert /\ aoc' = ""
         /\ (weather = "Rain" \/ weather' = "Rain")
              => weather # "InclementWeather" /\ weather' # "InclementWeather"
         /\ (weather' = weather) => aoc' = aoc
      ]_vars

\* C36 happens: a refresh has taken the weather from Clear to
\* InclementWeather and the alert is up
C36_Witness ==
  /\ pc = "spawn"
  /\ timer >= 1
  /\ weather = "InclementWeather"
  /\ aoc = InclementAlert
  /\ InclementAlert # ""

====
